---------------------------- MODULE Spec2Model ----------------------------
(***************************************************************************)
(* Model of the flash-sdk-rust pricing and risk computations:              *)
(*   programs/flash-read/src/states.rs   (OraclePrice, Custody, Market)    *)
(*   programs/flash-compute/src/lib.rs   (get_pool_token_prices,           *)
(*                                        get_liquidation_price)           *)
(*                                                                         *)
(* The program computes on u64, u128, i64 and i32 values.  TLC's integers  *)
(* are 32 bits wide, so every u64/u128/i64 quantity of the program is      *)
(* carried here as an exact unbounded natural: a little-endian sequence of *)
(* base-10^4 limbs without leading zero limbs (<<>> is 0).  Widths are     *)
(* checked against the real limits 2^64-1 and 2^128-1.                     *)
(***************************************************************************)
EXTENDS Integers, Sequences, FiniteSets, TLC

(***************************************************************************)
(* Exact natural-number arithmetic                                         *)
(***************************************************************************)
LIMB == 10 * 1000

RECURSIVE BTrim(_)
BTrim(s) ==
    IF s = <<>> THEN <<>>
    ELSE IF s[Len(s)] = 0 THEN BTrim(SubSeq(s, 1, Len(s) - 1))
    ELSE s

RECURSIVE N(_)
N(n) == IF n = 0 THEN <<>> ELSE <<n % LIMB>> \o N(n \div LIMB)

RECURSIVE BAddC(_, _, _)
BAddC(a, b, c) ==
    IF a = <<>> /\ b = <<>> THEN (IF c = 0 THEN <<>> ELSE <<c>>)
    ELSE LET x == IF a = <<>> THEN 0 ELSE Head(a)
             y == IF b = <<>> THEN 0 ELSE Head(b)
             s == x + y + c
         IN  <<s % LIMB>> \o BAddC(IF a = <<>> THEN <<>> ELSE Tail(a),
                                   IF b = <<>> THEN <<>> ELSE Tail(b),
                                   s \div LIMB)

BAdd(a, b) == BAddC(a, b, 0)

RECURSIVE BCmpFrom(_, _, _)
BCmpFrom(a, b, i) ==
    IF i = 0 THEN 0
    ELSE IF a[i] < b[i] THEN -1
    ELSE IF a[i] > b[i] THEN 1
    ELSE BCmpFrom(a, b, i - 1)

BCmp(a, b) ==
    IF Len(a) < Len(b) THEN -1
    ELSE IF Len(a) > Len(b) THEN 1
    ELSE BCmpFrom(a, b, Len(a))

BLt(a, b) == BCmp(a, b) < 0
BLe(a, b) == BCmp(a, b) <= 0
BGt(a, b) == BCmp(a, b) > 0
BGe(a, b) == BCmp(a, b) >= 0
BMin(a, b) == IF BLe(a, b) THEN a ELSE b

RECURSIVE BSubB(_, _, _)
BSubB(a, b, c) ==
    IF a = <<>> THEN <<>>
    ELSE LET y == IF b = <<>> THEN 0 ELSE Head(b)
             d == Head(a) - y - c
         IN  <<IF d < 0 THEN d + LIMB ELSE d>>
                 \o BSubB(Tail(a), IF b = <<>> THEN <<>> ELSE Tail(b),
                          IF d < 0 THEN 1 ELSE 0)

\* a - b for a >= b
BSub(a, b) == BTrim(BSubB(a, b, 0))

RECURSIVE BMulSmallC(_, _, _)
BMulSmallC(a, k, c) ==
    IF a = <<>> THEN (IF c = 0 THEN <<>> ELSE <<c>>)
    ELSE LET p == Head(a) * k + c
         IN  <<p % LIMB>> \o BMulSmallC(Tail(a), k, p \div LIMB)

\* a * k for 0 <= k < LIMB
BMulSmall(a, k) == IF k = 0 THEN <<>> ELSE BMulSmallC(a, k, 0)

RECURSIVE BMul(_, _)
BMul(a, b) ==
    IF a = <<>> \/ b = <<>> THEN <<>>
    ELSE LET hi == BMul(a, Tail(b))
         IN  BAdd(BMulSmall(a, Head(b)),
                  IF hi = <<>> THEN <<>> ELSE <<0>> \o hi)

RECURSIVE BDigit(_, _, _, _)
\* the largest d in lo..hi with d * b <= cur
BDigit(cur, b, lo, hi) ==
    IF lo = hi THEN lo
    ELSE LET mid == (lo + hi + 1) \div 2
         IN  IF BLe(BMulSmall(b, mid), cur)
             THEN BDigit(cur, b, mid, hi)
             ELSE BDigit(cur, b, lo, mid - 1)

RECURSIVE BDivMod(_, _)
\* quotient and remainder of a by b, for b > 0 (schoolbook long division)
BDivMod(a, b) ==
    IF a = <<>> THEN [q |-> <<>>, r |-> <<>>]
    ELSE LET rest == BDivMod(Tail(a), b)
             cur  == BTrim(<<Head(a)>> \o rest.r)
             d    == IF BLt(cur, b) THEN 0 ELSE BDigit(cur, b, 1, LIMB - 1)
         IN  [q |-> BTrim(<<d>> \o rest.q),
              r |-> BSub(cur, BMulSmall(b, d))]

BDiv(a, b) == BDivMod(a, b).q

RECURSIVE BPow(_, _)
BPow(a, n) ==
    IF n = 0 THEN <<1>>
    ELSE LET h == BPow(a, n \div 2)
         IN  IF n % 2 = 0 THEN BMul(h, h) ELSE BMul(BMul(h, h), a)


(***************************************************************************)
(* Machine integer types                                                   *)
(***************************************************************************)
U64_MAX  == BSub(BPow(N(2), 64), N(1))
U128_MAX == BSub(BPow(N(2), 128), N(1))
I64_MAX  == BSub(BPow(N(2), 63), N(1))
I32_MAX  == 2147483647
I32_MIN  == -2147483647 - 1
U32_MAX  == BSub(BPow(N(2), 32), N(1))

\* an i64: sign and magnitude, zero is never negative
I64(n) == [neg |-> n < 0, mag |-> N(IF n < 0 THEN -n ELSE n)]

ILt(a, b) ==
    IF a.neg /\ ~b.neg THEN TRUE
    ELSE IF ~a.neg /\ b.neg THEN FALSE
    ELSE IF a.neg THEN BLt(b.mag, a.mag)
    ELSE BLt(a.mag, b.mag)

IGt(a, b) == ILt(b, a)

\* the exact difference a - b of two i64 values
IDiff(a, b) ==
    IF a.neg = b.neg
    THEN (IF BGe(a.mag, b.mag)
          THEN [neg |-> a.neg /\ a.mag # b.mag, mag |-> BSub(a.mag, b.mag)]
          ELSE [neg |-> ~a.neg, mag |-> BSub(b.mag, a.mag)])
    ELSE [neg |-> a.neg, mag |-> BAdd(a.mag, b.mag)]

InI64(x) == IF x.neg THEN BLe(x.mag, BAdd(I64_MAX, N(1))) ELSE BLe(x.mag, I64_MAX)

\* i64::saturating_sub
i64_saturating_sub(a, b) ==
    LET d == IDiff(a, b)
    IN  IF InI64(d) THEN d
        ELSE IF d.neg THEN [neg |-> TRUE, mag |-> BAdd(I64_MAX, N(1))]
        ELSE [neg |-> FALSE, mag |-> I64_MAX]

\* `x as u64` for an i64 x: two's complement reinterpretation
i64_as_u64(x) == IF x.neg THEN BSub(BAdd(U64_MAX, N(1)), x.mag) ELSE x.mag

Ok(v)  == [ok |-> TRUE, v |-> v]
Err(e) == [ok |-> FALSE, err |-> e]
MathOverflow == Err("MathOverflow")

\* the `?` operator: continue with the value of an Ok, return an Err as it is
Try(r, F(_)) == IF r.ok THEN F(r.v) ELSE r

(***************************************************************************)
(* math: the checked arithmetic library.  `max` is the largest value of    *)
(* the operands' unsigned type.                                            *)
(***************************************************************************)
FitsIn(r, max) == IF BGt(r, max) THEN MathOverflow ELSE Ok(r)

checked_add(a, b, max) == FitsIn(BAdd(a, b), max)

checked_sub(a, b, max) == IF BLt(a, b) THEN MathOverflow ELSE Ok(BSub(a, b))

checked_mul(a, b, max) == FitsIn(BMul(a, b), max)

checked_div(a, b, max) == IF b = <<>> THEN MathOverflow ELSE Ok(BDiv(a, b))

CeilOf(d) == IF d.r = <<>> THEN d.q ELSE BAdd(d.q, <<1>>)

checked_ceil_div(a, b, max) ==
    IF b = <<>> THEN MathOverflow ELSE Ok(CeilOf(BDivMod(a, b)))

\* base^exp; every base >= 2 overflows 128 bits beyond exponent 127
checked_pow(base, exp, max) ==
    IF exp = 0 THEN Ok(<<1>>)
    ELSE IF BLe(base, <<1>>) THEN Ok(base)
    ELSE IF exp > 127 THEN MathOverflow
    ELSE FitsIn(BPow(base, exp), max)

checked_as_u64(a) == FitsIn(a, U64_MAX)

\* checked_add / checked_sub on i32
checked_add_i32(a, b) ==
    IF b > 0 /\ a > I32_MAX - b THEN MathOverflow
    ELSE IF b < 0 /\ a < I32_MIN - b THEN MathOverflow
    ELSE Ok(a + b)

checked_sub_i32(a, b) ==
    IF b < 0 /\ a > I32_MAX + b THEN MathOverflow
    ELSE IF b > 0 /\ a < I32_MIN + b THEN MathOverflow
    ELSE Ok(a - b)

\* raw * 10^power for power >= 0, raw / 10^-power otherwise, truncating
\* (ceil = FALSE) or rounding up (ceil = TRUE), narrowed to u64
decimal_shift(raw, power, ceil) ==
    Try(checked_pow(<<10>>, IF power >= 0 THEN power ELSE -power, U128_MAX), LAMBDA f :
    Try(IF power >= 0 THEN checked_mul(raw, f, U128_MAX)
        ELSE IF ceil THEN checked_ceil_div(raw, f, U128_MAX)
        ELSE checked_div(raw, f, U128_MAX), LAMBDA r :
    checked_as_u64(r)))

\* the product or quotient `raw` carries exponent `exponent`; bring it to
\* target_exponent
decimal_rescale(raw, exponent, target_exponent, ceil) ==
    Try(checked_sub_i32(exponent, target_exponent), LAMBDA target_power :
    decimal_shift(raw, target_power, ceil))

checked_decimal_mul(coefficient1, exponent1, coefficient2, exponent2, target_exponent) ==
    Try(checked_add_i32(exponent1, exponent2), LAMBDA e :
    Try(checked_mul(coefficient1, coefficient2, U128_MAX), LAMBDA m :
    decimal_rescale(m, e, target_exponent, FALSE)))

checked_decimal_ceil_mul(coefficient1, exponent1, coefficient2, exponent2, target_exponent) ==
    Try(checked_add_i32(exponent1, exponent2), LAMBDA e :
    Try(checked_mul(coefficient1, coefficient2, U128_MAX), LAMBDA m :
    decimal_rescale(m, e, target_exponent, TRUE)))

checked_decimal_div(coefficient1, exponent1, coefficient2, exponent2, target_exponent) ==
    Try(checked_div(coefficient1, coefficient2, U128_MAX), LAMBDA q :
    Try(checked_sub_i32(exponent1, exponent2), LAMBDA e :
    decimal_rescale(q, e, target_exponent, FALSE)))

(***************************************************************************)
(* states.rs: constants                                                    *)
(***************************************************************************)
ORACLE_EXPONENT_SCALE == -9
ORACLE_PRICE_SCALE == N(1000000000)
ORACLE_MAX_PRICE == BSub(BPow(N(2), 28), N(1))

BPS_DECIMALS  == 4
BPS_POWER     == BPow(N(10), BPS_DECIMALS)
USD_DECIMALS  == 6
LP_DECIMALS   == USD_DECIMALS
RATE_DECIMALS == 9
RATE_POWER    == BPow(N(10), RATE_DECIMALS)

(***************************************************************************)
(* states.rs: OraclePrice                                                  *)
(***************************************************************************)
OraclePrice(price, exponent) == [price |-> price, exponent |-> exponent]

\* the rescale with a wrapping multiplication in place of checked_mul
scale_by_wrapping(self, target_exponent, delta) ==
    Try(checked_pow(<<10>>, IF delta > 0 THEN delta ELSE -delta, U64_MAX), LAMBDA f :
    Try(IF delta > 0 THEN checked_div(self.price, f, U64_MAX)
        ELSE Ok(BDivMod(BMul(self.price, f), BAdd(U64_MAX, <<1>>)).r), LAMBDA p :
    Ok(OraclePrice(p, target_exponent))))

\* lines 199-210: delta = target_exponent - self.exponent, not 0
scale_by(self, target_exponent, delta) ==
    Try(checked_pow(<<10>>, IF delta > 0 THEN delta ELSE -delta, U64_MAX), LAMBDA f :
    Try(IF delta > 0 THEN checked_div(self.price, f, U64_MAX)
        ELSE checked_mul(self.price, f, U64_MAX), LAMBDA p :
    Ok(OraclePrice(p, target_exponent))))

\* lines 195-211.  For delta = i32::MIN the negation `-delta` overflows: a
\* build with overflow checks panics; one without them wraps to i32::MIN,
\* which `as usize` turns into 2^64 - 2^31, and 10 to that power overflows.
scale_to_exponent_build(self, target_exponent, overflow_checks) ==
    IF target_exponent = self.exponent THEN Ok(self)
    ELSE Try(checked_sub_i32(target_exponent, self.exponent), LAMBDA delta :
         IF delta = I32_MIN
         THEN (IF overflow_checks THEN Err("Panic") ELSE MathOverflow)
         ELSE scale_by(self, target_exponent, delta))

\* scale_to_exponent as its callers in this module reach it: their exponent
\* differences stay away from i32::MIN, where the two builds differ
scale_to_exponent(self, target_exponent) ==
    scale_to_exponent_build(self, target_exponent, TRUE)

\* u64::partial_cmp
u64_cmp(lhs, rhs) ==
    CASE BCmp(lhs, rhs) < 0 -> "Less"
      [] BCmp(lhs, rhs) > 0 -> "Greater"
      [] OTHER -> "Equal"

\* the comparison of lhs against a rescaled right operand, or of a rescaled
\* left operand against rhs; "None" when the rescale failed
cmp_scaled(scaled, lhs, rhs, scaled_is_lhs) ==
    IF ~scaled.ok THEN "None"
    ELSE IF scaled_is_lhs THEN u64_cmp(scaled.v.price, rhs)
    ELSE u64_cmp(lhs, scaled.v.price)

\* impl PartialOrd for OraclePrice
partial_cmp(self, other) ==
    IF self.exponent = other.exponent THEN u64_cmp(self.price, other.price)
    ELSE IF self.exponent < other.exponent
    THEN cmp_scaled(scale_to_exponent(other, self.exponent),
                    self.price, other.price, FALSE)
    ELSE cmp_scaled(scale_to_exponent(self, other.exponent),
                    self.price, other.price, TRUE)

price_lt(a, b) == partial_cmp(a, b) = "Less"
price_gt(a, b) == partial_cmp(a, b) = "Greater"

get_asset_amount_usd(self, token_amount, token_decimals) ==
    IF token_amount = <<>> \/ self.price = <<>> THEN Ok(<<>>)
    ELSE checked_decimal_mul(token_amount, -token_decimals,
                             self.price, self.exponent, -USD_DECIMALS)

\* derived PartialEq (line 89): field by field
price_eq(self, other) == self.price = other.price /\ self.exponent = other.exponent

RECURSIVE normalize_loop_inclusive(_, _)
\* the loop with `>=` in place of `>`
normalize_loop_inclusive(p, e) ==
    IF BGe(p, ORACLE_MAX_PRICE)
    THEN Try(checked_add_i32(e, 1), LAMBDA e1 :
             normalize_loop_inclusive(BDiv(p, <<10>>), e1))
    ELSE Ok(OraclePrice(p, e))

RECURSIVE normalize_loop(_, _)
normalize_loop(p, e) ==
    IF BGt(p, ORACLE_MAX_PRICE)
    THEN Try(checked_add_i32(e, 1), LAMBDA e1 : normalize_loop(BDiv(p, <<10>>), e1))
    ELSE Ok(OraclePrice(p, e))

normalize(self) == normalize_loop(self.price, self.exponent)

price_checked_sub(self, other) ==
    IF self.exponent # other.exponent THEN Err("ExponentMismatch")
    ELSE Try(checked_sub(self.price, other.price, U64_MAX), LAMBDA d :
         Ok(OraclePrice(d, self.exponent)))

\* the division on the operands as given, without normalize
price_checked_div_unnormalized(self, other) ==
    Try(checked_mul(self.price, ORACLE_PRICE_SCALE, U64_MAX), LAMBDA m :
    Try(checked_div(m, other.price, U64_MAX), LAMBDA q :
    Try(checked_add_i32(self.exponent, ORACLE_EXPONENT_SCALE), LAMBDA e1 :
    Try(checked_sub_i32(e1, other.exponent), LAMBDA e2 :
    Ok(OraclePrice(q, e2))))))

price_checked_div(self, other) ==
    Try(normalize(self), LAMBDA base :
    Try(normalize(other), LAMBDA oth :
    Try(checked_mul(base.price, ORACLE_PRICE_SCALE, U64_MAX), LAMBDA m :
    Try(checked_div(m, oth.price, U64_MAX), LAMBDA q :
    Try(checked_add_i32(base.exponent, ORACLE_EXPONENT_SCALE), LAMBDA e1 :
    Try(checked_sub_i32(e1, oth.exponent), LAMBDA e2 :
    Ok(OraclePrice(q, e2))))))))

get_divergence(price, reference) ==
    Try(IF price_gt(price, reference)
        THEN price_checked_sub(price, reference)
        ELSE price_checked_sub(reference, price), LAMBDA diff :
    Try(price_checked_div(diff, reference), LAMBDA factor :
    Try(scale_to_exponent(factor, -BPS_DECIMALS), LAMBDA s :
    Ok(s.price))))

\* i32::abs followed by `as usize`
i32_abs(e) == IF e < 0 THEN -e ELSE e

\* the confidence check with `<=` in place of `<`
confidence_band_inclusive(oracle_price, oracle_conf, oracle_params) ==
    Try(checked_mul(oracle_conf, BPS_POWER, U128_MAX), LAMBDA m :
    Try(checked_div(m, oracle_price.price, U128_MAX), LAMBDA conf_bps :
    IF BLe(conf_bps, oracle_params.max_conf_bps)
    THEN Try(checked_sub(oracle_price.price, oracle_conf, U64_MAX), LAMBDA lo :
         Try(checked_add(oracle_price.price, oracle_conf, U64_MAX), LAMBDA hi :
         Ok(<<OraclePrice(lo, oracle_price.exponent),
              OraclePrice(hi, oracle_price.exponent),
              TRUE>>)))
    ELSE Err("InvalidOraclePrice")))

\* the confidence band with the upper price left at the feed price
confidence_band_lower_only(oracle_price, oracle_conf, oracle_params) ==
    Try(checked_mul(oracle_conf, BPS_POWER, U128_MAX), LAMBDA m :
    Try(checked_div(m, oracle_price.price, U128_MAX), LAMBDA conf_bps :
    IF BLt(conf_bps, oracle_params.max_conf_bps)
    THEN Try(checked_sub(oracle_price.price, oracle_conf, U64_MAX), LAMBDA lo :
         Ok(<<OraclePrice(lo, oracle_price.exponent),
              OraclePrice(oracle_price.price, oracle_price.exponent),
              TRUE>>))
    ELSE Err("InvalidOraclePrice")))

\* lines 275-295: the confidence check, once the divergence check failed
confidence_band(oracle_price, oracle_conf, oracle_params) ==
    Try(checked_mul(oracle_conf, BPS_POWER, U128_MAX), LAMBDA m :
    Try(checked_div(m, oracle_price.price, U128_MAX), LAMBDA conf_bps :
    IF BLt(conf_bps, oracle_params.max_conf_bps)
    THEN Try(checked_sub(oracle_price.price, oracle_conf, U64_MAX), LAMBDA lo :
         Try(checked_add(oracle_price.price, oracle_conf, U64_MAX), LAMBDA hi :
         Ok(<<OraclePrice(lo, oracle_price.exponent),
              OraclePrice(hi, oracle_price.exponent),
              TRUE>>)))
    ELSE Err("InvalidOraclePrice")))

\* the divergence taken against the EMA for every asset, stable or not
reference_divergence_ema_only(oracle_price, oracle_ema_price, is_stable) ==
    get_divergence(oracle_price, oracle_ema_price)

\* lines 258-266
reference_divergence(oracle_price, oracle_ema_price, is_stable) ==
    IF is_stable
    THEN Try(checked_pow(<<10>>, i32_abs(oracle_price.exponent), U64_MAX), LAMBDA one :
         get_divergence(oracle_price, OraclePrice(one, oracle_price.exponent)))
    ELSE get_divergence(oracle_price, oracle_ema_price)

\* fetch_from_oracle on the reading (oracle_price, oracle_ema_price,
\* oracle_conf, oracle_timestamp) that get_int_oracle_price returns.
\* Ok carries <<min_oracle_price, max_oracle_price, volatility_flag>>.
fetch_from_oracle(oracle_price, oracle_ema_price, oracle_conf, oracle_timestamp, oracle_params, current_time, is_stable) ==
    IF IGt(i64_saturating_sub(current_time, oracle_timestamp),
           [neg |-> FALSE, mag |-> oracle_params.max_price_age_sec])
    THEN Err("InvalidOraclePrice")
    ELSE Try(reference_divergence(oracle_price, oracle_ema_price, is_stable),
             LAMBDA divergence_bps :
             IF BLt(divergence_bps, oracle_params.max_divergence_bps)
             THEN Ok(<<oracle_price, oracle_price, FALSE>>)
             ELSE confidence_band(oracle_price, oracle_conf, oracle_params))

(***************************************************************************)
(* states.rs: Pool                                                         *)
(***************************************************************************)
get_fee_amount(fee, amount) ==
    IF fee = <<>> \/ amount = <<>> THEN Ok(<<>>)
    ELSE Try(checked_mul(amount, fee, U128_MAX), LAMBDA m :
         Try(checked_ceil_div(m, RATE_POWER, U128_MAX), LAMBDA d :
         checked_as_u64(d)))

get_price(min_price, max_price, side, spread) ==
    IF side = "Long"
    THEN Try(checked_decimal_ceil_mul(max_price.price, max_price.exponent,
                                      spread, -USD_DECIMALS, max_price.exponent), LAMBDA s :
         Try(checked_add(max_price.price, s, U64_MAX), LAMBDA p :
         Ok(OraclePrice(p, max_price.exponent))))
    ELSE Try(checked_decimal_mul(min_price.price, min_price.exponent,
                                 spread, -USD_DECIMALS, min_price.exponent), LAMBDA s :
         Ok(OraclePrice(IF BLt(s, min_price.price) THEN BSub(min_price.price, s)
                        ELSE <<>>,
                        min_price.exponent)))

get_exit_price(min_price, max_price, side, spread) ==
    get_price(min_price, max_price, IF side = "Long" THEN "Short" ELSE "Long", spread)

(***************************************************************************)
(* states.rs: Custody                                                      *)
(***************************************************************************)
\* checked_sub on i64
checked_sub_i64(a, b) == IF InI64(IDiff(a, b)) THEN Ok(IDiff(a, b)) ELSE MathOverflow

\* the index accrued on the distance to last_update, also when curtime is before it
get_cumulative_lock_fee_any_distance(self, curtime) ==
    Try(checked_sub_i64(curtime, self.borrow_rate_state.last_update), LAMBDA dt :
    Try(checked_mul(dt.mag, self.borrow_rate_state.current_rate, U128_MAX), LAMBDA m :
    Try(checked_ceil_div(m, N(3600), U128_MAX), LAMBDA cumulative_lock_fee :
    checked_add(self.borrow_rate_state.cumulative_lock_fee,
                cumulative_lock_fee, U128_MAX))))

\* the index accrued with a truncating division in place of ceil_div
get_cumulative_lock_fee_floor(self, curtime) ==
    IF IGt(curtime, self.borrow_rate_state.last_update)
    THEN Try(checked_sub_i64(curtime, self.borrow_rate_state.last_update), LAMBDA dt :
         Try(checked_mul(dt.mag, self.borrow_rate_state.current_rate, U128_MAX), LAMBDA m :
         Try(checked_div(m, N(3600), U128_MAX), LAMBDA cumulative_lock_fee :
         checked_add(self.borrow_rate_state.cumulative_lock_fee,
                     cumulative_lock_fee, U128_MAX))))
    ELSE Ok(self.borrow_rate_state.cumulative_lock_fee)

get_cumulative_lock_fee(self, curtime) ==
    IF IGt(curtime, self.borrow_rate_state.last_update)
    THEN Try(checked_sub_i64(curtime, self.borrow_rate_state.last_update), LAMBDA dt :
         Try(checked_mul(dt.mag, self.borrow_rate_state.current_rate, U128_MAX), LAMBDA m :
         Try(checked_ceil_div(m, N(3600), U128_MAX), LAMBDA cumulative_lock_fee :
         checked_add(self.borrow_rate_state.cumulative_lock_fee,
                     cumulative_lock_fee, U128_MAX))))
    ELSE Ok(self.borrow_rate_state.cumulative_lock_fee)

\* the lock fee without the early return for a virtual custody
get_lock_fee_usd_ignoring_virtual(self, position, curtime) ==
    IF position.locked_usd = <<>> THEN Ok(<<>>)
    ELSE Try(get_cumulative_lock_fee(self, curtime), LAMBDA cumulative_lock_fee :
         IF BGt(cumulative_lock_fee, position.cumulative_lock_fee_snapshot)
         THEN Try(checked_sub(cumulative_lock_fee,
                              position.cumulative_lock_fee_snapshot, U128_MAX),
                  LAMBDA position_lock_fee :
              Try(checked_mul(position_lock_fee, position.locked_usd, U128_MAX), LAMBDA m :
              Try(checked_div(m, RATE_POWER, U128_MAX), LAMBDA d :
              checked_as_u64(d))))
         ELSE Ok(<<>>))

get_lock_fee_usd(self, position, curtime) ==
    IF position.locked_usd = <<>> \/ self.is_virtual THEN Ok(<<>>)
    ELSE Try(get_cumulative_lock_fee(self, curtime), LAMBDA cumulative_lock_fee :
         IF BGt(cumulative_lock_fee, position.cumulative_lock_fee_snapshot)
         THEN Try(checked_sub(cumulative_lock_fee,
                              position.cumulative_lock_fee_snapshot, U128_MAX),
                  LAMBDA position_lock_fee :
              Try(checked_mul(position_lock_fee, position.locked_usd, U128_MAX), LAMBDA m :
              Try(checked_div(m, RATE_POWER, U128_MAX), LAMBDA d :
              checked_as_u64(d))))
         ELSE Ok(<<>>))

(***************************************************************************)
(* states.rs: Market                                                       *)
(***************************************************************************)
NIL_PRICE == OraclePrice(<<>>, 0)

\* Position::default() restricted to the fields the computations read
DefaultPosition ==
    [entry_price |-> NIL_PRICE, size_amount |-> <<>>, size_usd |-> <<>>,
     locked_amount |-> <<>>, locked_usd |-> <<>>, collateral_amount |-> <<>>,
     unsettled_fees_usd |-> <<>>, cumulative_lock_fee_snapshot |-> <<>>,
     size_decimals |-> 0, locked_decimals |-> 0, collateral_decimals |-> 0]

collective(cp) ==
    IF cp.open_positions # <<>>
    THEN [entry_price |-> IF cp.size_amount # <<>>
                          THEN cp.average_entry_price
                          ELSE OraclePrice(<<>>, cp.average_entry_price.exponent),
          size_amount |-> cp.size_amount,
          size_usd |-> cp.size_usd,
          locked_amount |-> cp.locked_amount,
          locked_usd |-> cp.locked_usd,
          collateral_amount |-> cp.collateral_amount,
          unsettled_fees_usd |-> cp.unsettled_fee_usd,
          cumulative_lock_fee_snapshot |-> cp.cumulative_lock_fee_snapshot,
          size_decimals |-> cp.size_decimals,
          locked_decimals |-> cp.locked_decimals,
          collateral_decimals |-> cp.collateral_decimals]
    ELSE DefaultPosition

get_collective_position(self) == collective(self.collective_position)

(***************************************************************************)
(* lib.rs (flash-compute): get_pool_token_prices                           *)
(***************************************************************************)
\* a panic (index out of bounds, unwrap on None) aborts the instruction
Panic == Err("Panic")

\* vec[i] for a 0-based index i
InBounds(vec, i) == i >= 0 /\ i < Len(vec)
At(vec, i) == vec[i + 1]

\* lines 41-53
CustodyDetails(custody, price_message) ==
    [trade_spread_min |-> custody.pricing.trade_spread_min,
     trade_spread_max |-> custody.pricing.trade_spread_max,
     min_price |-> OraclePrice(i64_as_u64(price_message.price), price_message.exponent),
     max_price |-> OraclePrice(i64_as_u64(price_message.price), price_message.exponent)]

\* the custody's value added as the 128-bit product amount * price, not
\* rescaled to USD decimals nor narrowed to 64 bits
add_custody_unscaled(details, custody, equity) ==
    Try(checked_add(equity, BMul(custody.assets.owned, details.min_price.price), U128_MAX),
        LAMBDA sum :
    Ok(<<details, sum>>))

\* lines 55-57.  Ok carries <<CustodyDetails pushed, new pool_equity>>.
add_custody(details, custody, equity) ==
    Try(get_asset_amount_usd(details.min_price, custody.assets.owned, custody.decimals),
        LAMBDA token_amount_usd :
    Try(checked_add(equity, token_amount_usd, U128_MAX), LAMBDA sum :
    Ok(<<details, sum>>)))

\* lines 33-39, once the custody account is loaded
load_oracle(pool, remaining_accounts, idx, custody, equity) ==
    IF idx + Len(pool.custodies) >= Len(remaining_accounts)
    THEN Err("NotEnoughAccountKeys")
    ELSE IF At(remaining_accounts, idx + Len(pool.custodies)).key
                # custody.oracle.ext_oracle_account
    THEN Err("RequireKeysEqViolated")
    ELSE IF At(remaining_accounts, idx + Len(pool.custodies)).type # "PriceUpdateV2"
    THEN Err("AccountDiscriminatorMismatch")
    ELSE add_custody(CustodyDetails(custody,
                         At(remaining_accounts, idx + Len(pool.custodies)).data),
                     custody, equity)

\* lines 29-59: one iteration of the custody loop
custody_iteration(pool, remaining_accounts, idx, equity) ==
    IF ~InBounds(remaining_accounts, idx) THEN Panic
    ELSE IF At(remaining_accounts, idx).key # At(pool.custodies, idx)
    THEN Err("RequireKeysEqViolated")
    ELSE IF At(remaining_accounts, idx).type # "Custody"
    THEN Err("AccountDiscriminatorMismatch")
    ELSE load_oracle(pool, remaining_accounts, idx, At(remaining_accounts, idx).data, equity)

\* u128::wrapping_sub in place of saturating_sub
u128_wrapping_sub(a, b) ==
    IF BLt(a, b) THEN BSub(BAdd(U128_MAX, <<1>>), BSub(b, a)) ELSE BSub(a, b)

\* u128::saturating_sub
u128_saturating_sub(a, b) == IF BLt(a, b) THEN <<>> ELSE BSub(a, b)

\* u128::checked_add(..).unwrap()
u128_add_unwrap(a, b) == IF BGt(BAdd(a, b), U128_MAX) THEN Panic ELSE Ok(BAdd(a, b))

\* settle_pnl without the min against the locked / collateral value
settle_pnl_uncapped(equity, profit_case, pnl, position, collateral_min_price) ==
    IF profit_case THEN Ok(u128_saturating_sub(equity, pnl))
    ELSE u128_add_unwrap(equity, pnl)

\* lines 85-88 / 118-121 (profit_case) and 91-94 / 124-127: settle the
\* market's PnL `pnl` against the equity, capped by the locked amount (a
\* profit of the traders) or the collateral amount (a loss) valued at the
\* collateral custody's min price
settle_pnl(equity, profit_case, pnl, position, collateral_min_price) ==
    IF profit_case
    THEN Try(get_asset_amount_usd(collateral_min_price, position.locked_amount,
                                  position.locked_decimals), LAMBDA cap :
         Ok(u128_saturating_sub(equity, BMin(pnl, cap))))
    ELSE Try(get_asset_amount_usd(collateral_min_price, position.collateral_amount,
                                  position.collateral_decimals), LAMBDA cap :
         u128_add_unwrap(equity, BMin(pnl, cap)))

\* lines 70-82: exit price of a short market
\* the short exit price with the spread rounded down
short_exit_price_floor(target) ==
    Try(checked_decimal_mul(target.max_price.price, target.max_price.exponent,
                            target.trade_spread_max, -6,
                            target.max_price.exponent), LAMBDA s :
    Try(checked_add(target.max_price.price, s, U64_MAX), LAMBDA p :
    Ok(OraclePrice(p, target.max_price.exponent))))

short_exit_price(target) ==
    Try(checked_decimal_ceil_mul(target.max_price.price, target.max_price.exponent,
                                 target.trade_spread_max, -6,
                                 target.max_price.exponent), LAMBDA s :
    Try(checked_add(target.max_price.price, s, U64_MAX), LAMBDA p :
    Ok(OraclePrice(p, target.max_price.exponent))))

\* lines 97-114: exit price of every other market
long_exit_price(target) ==
    Try(checked_decimal_mul(target.min_price.price, target.min_price.exponent,
                            target.trade_spread_min, -6,
                            target.min_price.exponent), LAMBDA spread :
    Ok(OraclePrice(IF BLt(spread, target.min_price.price)
                   THEN BSub(target.min_price.price, spread)
                   ELSE <<>>,
                   target.min_price.exponent)))

\* the branch condition of lines 83 and 116
in_profit(side, exit_price, entry_price) ==
    IF side = "Short" THEN price_lt(exit_price, entry_price)
    ELSE price_gt(exit_price, entry_price)

\* the first operand of min: shorts gain below the entry price, the others
\* above it
price_move(side, profit_case, exit_price, entry_price) ==
    IF (side = "Short") = profit_case
    THEN price_checked_sub(entry_price, exit_price)
    ELSE price_checked_sub(exit_price, entry_price)

\* lines 83-128 for the exit price computed
market_pnl(market, position, exit_price, profit_case, details, equity) ==
    Try(price_move(market.side, profit_case, exit_price, position.entry_price),
        LAMBDA diff :
    Try(get_asset_amount_usd(diff, position.size_amount, position.size_decimals),
        LAMBDA pnl :
    IF ~InBounds(details, market.collateral_custody_id) THEN Panic
    ELSE settle_pnl(equity, profit_case, pnl, position,
                    At(details, market.collateral_custody_id).min_price)))

\* lines 68-130, once the market account is loaded
market_equity(market, position, details, equity) ==
    IF ~InBounds(details, market.target_custody_id) THEN Panic
    ELSE Try(IF market.side = "Short"
             THEN short_exit_price(At(details, market.target_custody_id))
             ELSE long_exit_price(At(details, market.target_custody_id)),
             LAMBDA exit_price :
             market_pnl(market, position, exit_price,
                        in_profit(market.side, exit_price, position.entry_price),
                        details, equity))

\* lines 64-131: one iteration of the market loop.  Ok carries the new
\* pool_equity.
market_iteration(pool, remaining_accounts, idx, details, equity) ==
    IF ~InBounds(remaining_accounts, (Len(pool.custodies) * 2) + idx) THEN Panic
    ELSE IF At(remaining_accounts, (Len(pool.custodies) * 2) + idx).key
                # At(pool.markets, idx)
    THEN Err("RequireKeysEqViolated")
    ELSE IF At(remaining_accounts, (Len(pool.custodies) * 2) + idx).type # "Market"
    THEN Err("AccountDiscriminatorMismatch")
    ELSE market_equity(
             At(remaining_accounts, (Len(pool.custodies) * 2) + idx).data,
             get_collective_position(
                 At(remaining_accounts, (Len(pool.custodies) * 2) + idx).data),
             details, equity)

\* lines 133-161: the two share prices from the final equity
share_prices(pool, lp_supply, equity) ==
    Try(checked_as_u64(equity), LAMBDA e64 :
    Try(checked_decimal_div(e64, -USD_DECIMALS, lp_supply,
                            -LP_DECIMALS, -USD_DECIMALS), LAMBDA sflp_price_usd :
    Try(checked_decimal_div(pool.compounding_stats.active_amount, -LP_DECIMALS,
                            pool.compounding_stats.total_supply, -LP_DECIMALS,
                            -LP_DECIMALS), LAMBDA compounding_factor :
    Try(checked_decimal_mul(sflp_price_usd, -USD_DECIMALS,
                            compounding_factor, -LP_DECIMALS,
                            -USD_DECIMALS), LAMBDA flp_price :
    Ok(<<sflp_price_usd, flp_price>>)))))

(***************************************************************************)
(* lib.rs (flash-compute): get_liquidation_price                           *)
(***************************************************************************)
\* lines 186-190
leverage_liability(position, target_custody) ==
    Try(checked_mul(position.size_usd, BPS_POWER, U128_MAX), LAMBDA m :
    Try(checked_div(m, target_custody.pricing.max_leverage, U128_MAX), LAMBDA d :
    checked_as_u64(d)))

\* lines 180-192
liabilities_usd(position, target_custody, collateral_custody, now) ==
    Try(get_fee_amount(position.size_usd, target_custody.fees.close_position),
        LAMBDA fee :
    Try(get_lock_fee_usd(collateral_custody, position, now), LAMBDA lock_fee :
    Try(checked_add(fee, lock_fee, U64_MAX), LAMBDA fees :
    Try(leverage_liability(position, target_custody), LAMBDA lev :
    Try(checked_add(position.unsettled_fees_usd, lev, U64_MAX), LAMBDA rest :
    checked_add(fees, rest, U64_MAX))))))

\* `(position.size_decimals + 3) as usize`: an addition on u8.  Past 255 a
\* build with overflow checks panics, a build without them wraps.
rate_shift(size_decimals, overflow_checks) ==
    IF size_decimals + 3 <= 255 THEN Ok(size_decimals + 3)
    ELSE IF overflow_checks THEN Panic
    ELSE Ok((size_decimals + 3) % 256)

\* OraclePrice::new(checked_as_u64(usd * 10^shift / amount), -RATE_DECIMALS)
\*     .scale_to_exponent(exponent)
usd_per_amount(usd, shift, amount, exponent) ==
    Try(checked_pow(<<10>>, shift, U128_MAX), LAMBDA f :
    Try(checked_mul(usd, f, U128_MAX), LAMBDA m :
    Try(checked_div(m, amount, U128_MAX), LAMBDA d :
    Try(checked_as_u64(d), LAMBDA p :
    scale_to_exponent(OraclePrice(p, -RATE_DECIMALS), exponent)))))

u64_saturating_sub(a, b) == IF BLt(a, b) THEN <<>> ELSE BSub(a, b)
u64_saturating_add(a, b) == BMin(BAdd(a, b), U64_MAX)

\* the correlated long price with the collateral left out of the denominator
correlated_long_price_size_only(position, liab, overflow_checks) ==
    Try(checked_add(position.size_usd, liab, U64_MAX), LAMBDA total :
    Try(rate_shift(position.size_decimals, overflow_checks), LAMBDA shift :
    usd_per_amount(total, shift, position.size_amount, position.entry_price.exponent)))

\* lines 197-207
correlated_long_price(position, liab, overflow_checks) ==
    Try(checked_add(position.size_usd, liab, U64_MAX), LAMBDA total :
    Try(rate_shift(position.size_decimals, overflow_checks), LAMBDA shift :
    Try(checked_pow(<<10>>, shift, U128_MAX), LAMBDA f :
    Try(checked_mul(total, f, U128_MAX), LAMBDA m :
    Try(checked_add(position.size_amount, position.collateral_amount, U64_MAX),
        LAMBDA amount :
    Try(checked_div(m, amount, U128_MAX), LAMBDA d :
    Try(checked_as_u64(d), LAMBDA p :
    scale_to_exponent(OraclePrice(p, -RATE_DECIMALS),
                      position.entry_price.exponent))))))))

\* the entry price moved by the delta with wrapping u64 arithmetic
apply_delta_wrapping(entry_price, delta, add) ==
    OraclePrice(IF add
                THEN BDivMod(BAdd(entry_price.price, delta.price), BAdd(U64_MAX, <<1>>)).r
                ELSE IF BLt(entry_price.price, delta.price)
                     THEN BSub(BAdd(entry_price.price, BAdd(U64_MAX, <<1>>)), delta.price)
                     ELSE BSub(entry_price.price, delta.price),
                delta.exponent)

\* lines 226-233 (solvent) and 246-253: move the entry price by the delta
apply_delta(entry_price, delta, add) ==
    OraclePrice(IF add THEN u64_saturating_add(entry_price.price, delta.price)
                ELSE u64_saturating_sub(entry_price.price, delta.price),
                delta.exponent)

\* lines 212-254
uncorrelated_price(position, side, collateral_price, liab, overflow_checks) ==
    Try(get_asset_amount_usd(collateral_price, position.collateral_amount,
                             position.collateral_decimals), LAMBDA assets_usd :
    Try(rate_shift(position.size_decimals, overflow_checks), LAMBDA shift :
    IF BGe(assets_usd, liab)
    THEN Try(usd_per_amount(BSub(assets_usd, liab), shift, position.size_amount,
                            position.entry_price.exponent), LAMBDA price_diff_loss :
         Ok(apply_delta(position.entry_price, price_diff_loss, side # "Long")))
    ELSE Try(usd_per_amount(BSub(liab, assets_usd), shift, position.size_amount,
                            position.entry_price.exponent), LAMBDA price_diff_profit :
         Ok(apply_delta(position.entry_price, price_diff_profit, side = "Long")))))

get_liquidation_price(position, market, target_custody, collateral_custody, price_message, now, overflow_checks) ==
    Try(liabilities_usd(position, target_custody, collateral_custody, now), LAMBDA liab :
    IF market.correlation /\ market.side = "Long"
    THEN correlated_long_price(position, liab, overflow_checks)
    ELSE uncorrelated_price(position, market.side,
                            OraclePrice(i64_as_u64(price_message.price),
                                        price_message.exponent),
                            liab, overflow_checks))

(***************************************************************************)
(* State                                                                   *)
(***************************************************************************)
VARIABLES
    fn,               \* the entry point this behaviour runs
    args,             \* the accounts and values supplied to it
    pc,               \* "run" while the handler executes, "done" after
    idx,              \* get_pool_token_prices: custodies and markets processed
    pool_equity,      \* get_pool_token_prices: the u128 accumulator
    custody_details,  \* get_pool_token_prices: the CustodyDetails vector
    ret,              \* the Result the entry point returned
    hist              \* get_lock_fee_usd: the results of the calls so far, by time

vars == <<fn, args, pc, idx, pool_equity, custody_details, ret, hist>>

NoRet == [ok |-> FALSE, err |-> "pending"]

(***************************************************************************)
(* Inputs                                                                  *)
(***************************************************************************)
\* bounds of the explored inputs
MaxMarkets == 2
MaxCalls == 2

E6 == N(1000000)
E8 == N(100000000)
E9 == N(1000000000)
Usd(n)  == BMul(N(n), E6)      \* n USD (or n USDC), 6 decimals
Sol(n)  == BMul(N(n), E9)      \* n target tokens, 9 decimals
Px(n)   == BMul(N(n), E8)      \* a price of n USD at exponent -8

NOW == 1700000000

\* PriceUpdateV2.price_message of the target token's feed
TargetFeeds ==
    { \* agrees with its EMA, tight confidence, fresh
      [price |-> [neg |-> FALSE, mag |-> Px(100)], exponent |-> -8, conf |-> N(5000000),
       ema_price |-> [neg |-> FALSE, mag |-> Px(100)], publish_time |-> I64(NOW - 5)],
      \* 10% above its EMA, confidence 10 bps: the confidence band applies
      [price |-> [neg |-> FALSE, mag |-> Px(110)], exponent |-> -8, conf |-> N(11000000),
       ema_price |-> [neg |-> FALSE, mag |-> Px(100)], publish_time |-> I64(NOW - 5)],
      \* 10% below its EMA, confidence 1000 bps: not a valid price
      [price |-> [neg |-> FALSE, mag |-> Px(90)], exponent |-> -8, conf |-> Px(9),
       ema_price |-> [neg |-> FALSE, mag |-> Px(100)], publish_time |-> I64(NOW - 5)],
      \* stale
      [price |-> [neg |-> FALSE, mag |-> Px(100)], exponent |-> -8, conf |-> N(5000000),
       ema_price |-> [neg |-> FALSE, mag |-> Px(100)], publish_time |-> I64(NOW - 100)] }

StableFeed ==
    [price |-> [neg |-> FALSE, mag |-> Px(1)], exponent |-> -8, conf |-> N(10000),
     ema_price |-> [neg |-> FALSE, mag |-> Px(1)], publish_time |-> I64(NOW - 5)]

PoolOracleParams(key) ==
    [ext_oracle_account |-> key, max_divergence_bps |-> N(100),
     max_conf_bps |-> N(50), max_price_age_sec |-> N(60)]

\* the target custody (9 decimals) and the stable collateral custody (6)
TargetCustody(owned, spread) ==
    [decimals |-> 9, is_stable |-> FALSE, is_virtual |-> FALSE,
     oracle |-> PoolOracleParams("oracle0"),
     pricing |-> [trade_spread_min |-> spread[1], trade_spread_max |-> spread[2]],
     assets |-> [owned |-> owned]]

StableCustody(owned) ==
    [decimals |-> 6, is_stable |-> TRUE, is_virtual |-> FALSE,
     oracle |-> PoolOracleParams("oracle1"),
     pricing |-> [trade_spread_min |-> <<>>, trade_spread_max |-> <<>>],
     assets |-> [owned |-> owned]]

\* owned by the pool: 10 USDC, or 2 target tokens and 100 USDC
OwnedChoices == { <<N(0), Usd(10)>>, <<Sol(2), Usd(100)>> }
SpreadChoices == { <<N(0), N(0)>>, <<N(1000), N(2000)>> }

PositionStats(open, entry, exponent, size, locked, collateral) ==
    [open_positions |-> open,
     average_entry_price |-> OraclePrice(entry, exponent),
     size_amount |-> size, size_usd |-> Usd(100),
     locked_amount |-> locked, locked_usd |-> Usd(50),
     collateral_amount |-> collateral, unsettled_fee_usd |-> N(0),
     cumulative_lock_fee_snapshot |-> N(0),
     size_decimals |-> 9, locked_decimals |-> 6, collateral_decimals |-> 6]

StatsChoices ==
    { \* no open position: the stored totals are ignored
      PositionStats(N(0), Px(100), -8, Sol(1), Usd(50), Usd(20)),
      \* 1 token at 100 USD: the PnL is below both caps
      PositionStats(N(3), Px(100), -8, Sol(1), Usd(50), Usd(20)),
      \* 10 tokens at 100 USD: the caps bind
      PositionStats(N(1), Px(100), -8, Sol(10), Usd(50), Usd(20)) }

Sides == {"None", "Long", "Short"}

MarketOf(sd, st) ==
    [side |-> sd, correlation |-> FALSE,
     target_custody_id |-> 0, collateral_custody_id |-> 1,
     collective_position |-> st]

MarketChoices ==
    { MarketOf(sd, st) : sd \in {"Long", "Short"}, st \in StatsChoices }
    \cup { MarketOf("None", PositionStats(N(3), Px(100), -8, Sol(1), Usd(50), Usd(20))) }

MarketSeqs == UNION { [1..n -> MarketChoices] : n \in 0..MaxMarkets }

MarketKey(i) == <<"market", i>>

\* the remaining accounts in the documented order: custodies, their
\* oracles, markets
PoolArgs(feed, owned, spread, markets) ==
    [pool |-> [custodies |-> <<"custody0", "custody1">>,
               markets |-> [i \in 1..Len(markets) |-> MarketKey(i)],
               compounding_stats |-> [active_amount |-> Usd(500),
                                      total_supply |-> Usd(400)]],
     lp_supply |-> Usd(1000),
     now |-> I64(NOW),
     remaining_accounts |->
         << [key |-> "custody0", type |-> "Custody",
             data |-> TargetCustody(owned[1], spread)],
            [key |-> "custody1", type |-> "Custody",
             data |-> StableCustody(owned[2])],
            [key |-> "oracle0", type |-> "PriceUpdateV2", data |-> feed],
            [key |-> "oracle1", type |-> "PriceUpdateV2", data |-> StableFeed] >>
         \o [i \in 1..Len(markets) |->
                [key |-> MarketKey(i), type |-> "Market", data |-> markets[i]]]]

\* what a caller may pass as ctx.remaining_accounts instead: the last record
\* missing, no record at all, or a last record under another key (a market
\* key after the four custody and oracle records, an oracle key otherwise)
Supplyings == {"as_documented", "last_missing", "none", "last_under_other_key"}
Supplied(accounts, supplying) ==
    CASE supplying = "as_documented" -> accounts
      [] supplying = "last_missing" -> SubSeq(accounts, 1, Len(accounts) - 1)
      [] supplying = "none" -> <<>>
      [] supplying = "last_under_other_key" ->
             [accounts EXCEPT ![Len(accounts)].key =
                  IF Len(accounts) > 4 THEN MarketKey(0) ELSE "other"]

\* a valid feed whose price times a spread is not a whole number of units:
\* 100.00000001
OddFeed ==
    [price |-> [neg |-> FALSE, mag |-> BAdd(Px(100), N(1))], exponent |-> -8,
     conf |-> N(5000000),
     ema_price |-> [neg |-> FALSE, mag |-> BAdd(Px(100), N(1))],
     publish_time |-> I64(NOW - 5)]
\* a min spread of 100%: the spread is not below the price
FullSpread == <<N(1000000), N(2000)>>

\* the inputs drawn.  With the documented records: every feed with one
\* amount and spread, the feed at 100 with both amounts under a spread, the
\* feed at 110 with both amounts under no spread.  With the other
\* supplyings: one feed, amount and spread.  The odd feed: one amount and
\* two spreads.
Drawn(feed, owned, spread, supplying) ==
    \/ /\ feed \in TargetFeeds /\ spread \in SpreadChoices /\ supplying = "as_documented"
       /\ \/ owned = <<Sol(2), Usd(100)>> /\ spread = <<N(1000), N(2000)>>
          \/ /\ feed.price.mag = Px(100) /\ feed.publish_time = I64(NOW - 5)
             /\ spread = <<N(1000), N(2000)>>
          \/ feed.price.mag = Px(110) /\ spread = <<N(0), N(0)>>
    \/ /\ feed \in TargetFeeds
       /\ feed.price.mag = Px(100) /\ feed.conf = N(5000000)
       /\ feed.publish_time = I64(NOW - 5)
       /\ owned = <<Sol(2), Usd(100)>>
       /\ spread = <<N(1000), N(2000)>>
    \/ /\ feed = OddFeed
       /\ owned = <<Sol(2), Usd(100)>>
       /\ spread \in {FullSpread, <<N(1000), N(2000)>>}
       /\ supplying = "as_documented"

(***************************************************************************)
(* get_pool_token_prices as a process: one step per loop iteration         *)
(***************************************************************************)
InitPool ==
    /\ fn = "get_pool_token_prices"
    /\ \E feed \in TargetFeeds \cup {OddFeed}, owned \in OwnedChoices,
          spread \in SpreadChoices \cup {FullSpread},
          markets \in MarketSeqs, supplying \in Supplyings :
          /\ Drawn(feed, owned, spread, supplying)
          /\ args = [PoolArgs(feed, owned, spread, markets) EXCEPT
                         !.remaining_accounts = Supplied(@, supplying)]
    /\ pc = "run"
    /\ idx = 0
    /\ pool_equity = <<>>
    /\ custody_details = <<>>
    /\ ret = NoRet
    /\ hist = <<>>

NumCustodies == Len(args.pool.custodies)
NumMarkets   == Len(args.pool.markets)

Fail(r) ==
    /\ pc' = "done"
    /\ ret' = r
    /\ UNCHANGED <<fn, args, idx, pool_equity, custody_details, hist>>

CustodyStep ==
    /\ fn = "get_pool_token_prices" /\ pc = "run"
    /\ idx < NumCustodies
    /\ LET r == custody_iteration(args.pool, args.remaining_accounts, idx, pool_equity)
       IN  IF r.ok
           THEN /\ custody_details' = Append(custody_details, r.v[1])
                /\ pool_equity' = r.v[2]
                /\ idx' = idx + 1
                /\ UNCHANGED <<fn, args, pc, ret, hist>>
           ELSE Fail(r)

MarketStep ==
    /\ fn = "get_pool_token_prices" /\ pc = "run"
    /\ idx >= NumCustodies /\ idx < NumCustodies + NumMarkets
    /\ LET r == market_iteration(args.pool, args.remaining_accounts,
                                 idx - NumCustodies, custody_details, pool_equity)
       IN  IF r.ok
           THEN /\ pool_equity' = r.v
                /\ idx' = idx + 1
                /\ UNCHANGED <<fn, args, pc, custody_details, ret, hist>>
           ELSE Fail(r)

SharePriceStep ==
    /\ fn = "get_pool_token_prices" /\ pc = "run"
    /\ idx = NumCustodies + NumMarkets
    /\ pc' = "done"
    /\ ret' = share_prices(args.pool, args.lp_supply, pool_equity)
    /\ UNCHANGED <<fn, args, idx, pool_equity, custody_details, hist>>

NextPool == CustodyStep \/ MarketStep \/ SharePriceStep

SpecPool == InitPool /\ [][NextPool]_vars

(***************************************************************************)
(* fetch_from_oracle                                                       *)
(***************************************************************************)
OracleExponents == {-8, -5}
One(e) == BPow(<<10>>, i32_abs(e))

\* feed prices: 0, 1.0, 1.05 and the largest u64
OraclePrices(e) == { <<>>, One(e), BDiv(BMul(One(e), N(105)), N(100)), U64_MAX }
\* EMA prices: 0, 1.0, or the price itself
OracleEmas(e, price) == { <<>>, One(e), price }
\* confidence: 0, 10 bps and 100 bps of 1.0, and 2.0
OracleConfs(e) == { <<>>, BDiv(One(e), N(1000)), BDiv(One(e), N(100)), BMul(One(e), N(2)) }
OracleParamChoices ==
    { [max_divergence_bps |-> d, max_conf_bps |-> c, max_price_age_sec |-> a] :
        d \in {N(0), N(100)}, c \in {N(0), N(50), N(30000)}, a \in {N(0), N(60)} }
PublishTimes == { I64(NOW), I64(NOW - 61), I64(NOW + 10) }

InitOracle ==
    /\ fn = "fetch_from_oracle"
    /\ \E e \in OracleExponents :
       \E price \in OraclePrices(e) :
       \E ema \in OracleEmas(e, price), conf \in OracleConfs(e),
          params \in OracleParamChoices, t \in PublishTimes, stable \in BOOLEAN :
          args = [oracle_price |-> OraclePrice(price, e),
                  oracle_ema_price |-> OraclePrice(ema, e),
                  oracle_conf |-> conf,
                  oracle_timestamp |-> t,
                  oracle_params |-> params,
                  current_time |-> I64(NOW),
                  is_stable |-> stable]
    /\ pc = "run"
    /\ idx = 0
    /\ pool_equity = <<>>
    /\ custody_details = <<>>
    /\ ret = NoRet
    /\ hist = <<>>

FetchFromOracle ==
    /\ fn = "fetch_from_oracle" /\ pc = "run"
    /\ pc' = "done"
    /\ ret' = fetch_from_oracle(args.oracle_price, args.oracle_ema_price,
                                args.oracle_conf, args.oracle_timestamp,
                                args.oracle_params, args.current_time, args.is_stable)
    /\ UNCHANGED <<fn, args, idx, pool_equity, custody_details, hist>>

NextOracle == FetchFromOracle

SpecOracle == InitOracle /\ [][NextOracle]_vars

(***************************************************************************)
(* get_lock_fee_usd, called at several times on one custody and position   *)
(***************************************************************************)
\* the clock readings of the calls; the custody was last updated at NOW
Times == << I64(NOW - 10), I64(NOW), I64(NOW + 1), I64(NOW + 3600), I64(NOW + 7200) >>

FeeCustodies ==
    { [is_virtual |-> v,
       borrow_rate_state |-> [current_rate |-> r, cumulative_lock_fee |-> c,
                              last_update |-> I64(NOW)]] :
        v \in BOOLEAN,
        r \in {N(0), N(1), N(36000), E9},
        c \in {N(0), BMul(N(5), E9), U128_MAX} }

FeePositions ==
    { [locked_usd |-> l, cumulative_lock_fee_snapshot |-> sn] :
        l \in {N(0), Usd(1), Usd(1000), U64_MAX},
        sn \in {N(0), BMul(N(5), E9), BMul(N(6), E9)} }

InitFee ==
    /\ fn = "get_lock_fee_usd"
    /\ \E c \in FeeCustodies, p \in FeePositions : args = [custody |-> c, position |-> p]
    /\ pc = "run"
    /\ idx = 0
    /\ pool_equity = <<>>
    /\ custody_details = <<>>
    /\ ret = NoRet
    /\ hist = <<>>

GetLockFeeUsd ==
    /\ fn = "get_lock_fee_usd"
    /\ Cardinality(DOMAIN hist) < MaxCalls
    /\ \E t \in (1..Len(Times)) \ DOMAIN hist :
          /\ ret' = get_lock_fee_usd(args.custody, args.position, Times[t])
          /\ hist' = [u \in DOMAIN hist \cup {t} |-> IF u = t THEN ret' ELSE hist[u]]
    /\ UNCHANGED <<fn, args, pc, idx, pool_equity, custody_details>>

NextFee == GetLockFeeUsd

SpecFee == InitFee /\ [][NextFee]_vars

(***************************************************************************)
(* get_liquidation_price                                                   *)
(***************************************************************************)
LiqPositions ==
    { [entry_price |-> OraclePrice(entry, -8),
       size_amount |-> size, size_usd |-> Usd(100),
       locked_amount |-> Usd(50), locked_usd |-> Usd(50),
       collateral_amount |-> coll,
       unsettled_fees_usd |-> unsettled,
       cumulative_lock_fee_snapshot |-> <<>>,
       size_decimals |-> 9, locked_decimals |-> 6, collateral_decimals |-> 6] :
        entry \in {Px(100), Px(10), U64_MAX},
        size \in {Sol(1), N(0)},
        coll \in {N(0), N(1), Usd(1), Usd(20)},
        unsettled \in {N(0), Usd(1)} }

LiqMarkets == { [side |-> sd, correlation |-> c] : sd \in Sides, c \in BOOLEAN }

\* close fee 0.1%, max leverage 100x
LiqTargetCustody ==
    [fees |-> [close_position |-> N(1000000)],
     pricing |-> [max_leverage |-> N(1000000)]]

\* the lock fee index grows by 0.02 per hour
LiqCollateralCustody ==
    [is_virtual |-> FALSE,
     borrow_rate_state |-> [current_rate |-> N(20000000), cumulative_lock_fee |-> <<>>,
                            last_update |-> I64(NOW - 3600)]]

\* PriceFeedMessage.price is an i64: two positive prices and the price -1
LiqFeeds ==
    { [price |-> [neg |-> FALSE, mag |-> Px(p)], exponent |-> -8] : p \in {1, 2} }
    \cup { [price |-> [neg |-> TRUE, mag |-> N(1)], exponent |-> -8] }

InitLiq ==
    /\ fn = "get_liquidation_price"
    /\ \E position \in LiqPositions, market \in LiqMarkets, feed \in LiqFeeds,
          now \in {I64(NOW - 3600), I64(NOW)} :
          args = [position |-> position, market |-> market,
                  target_custody |-> LiqTargetCustody,
                  collateral_custody |-> LiqCollateralCustody,
                  price_message |-> feed, now |-> now]
    /\ pc = "run"
    /\ idx = 0
    /\ pool_equity = <<>>
    /\ custody_details = <<>>
    /\ ret = NoRet
    /\ hist = <<>>

GetLiquidationPrice ==
    /\ fn = "get_liquidation_price" /\ pc = "run"
    /\ pc' = "done"
    /\ \E overflow_checks \in
             IF args.position.size_decimals + 3 > 255 THEN BOOLEAN ELSE {TRUE} :
          ret' = get_liquidation_price(args.position, args.market, args.target_custody,
                                       args.collateral_custody, args.price_message,
                                       args.now, overflow_checks)
    /\ UNCHANGED <<fn, args, idx, pool_equity, custody_details, hist>>

NextLiq == GetLiquidationPrice

SpecLiq == InitLiq /\ [][NextLiq]_vars

(***************************************************************************)
(* get_cumulative_lock_fee                                                 *)
(***************************************************************************)
InitIndex ==
    /\ fn = "get_cumulative_lock_fee"
    /\ \E c \in FeeCustodies, t \in 1..Len(Times) : args = [custody |-> c, curtime |-> Times[t]]
    /\ pc = "run"
    /\ idx = 0
    /\ pool_equity = <<>>
    /\ custody_details = <<>>
    /\ ret = NoRet
    /\ hist = <<>>

GetCumulativeLockFee ==
    /\ fn = "get_cumulative_lock_fee" /\ pc = "run"
    /\ pc' = "done"
    /\ ret' = get_cumulative_lock_fee(args.custody, args.curtime)
    /\ UNCHANGED <<fn, args, idx, pool_equity, custody_details, hist>>

NextIndex == GetCumulativeLockFee

SpecIndex == InitIndex /\ [][NextIndex]_vars

(***************************************************************************)
(* OraclePrice: ==, normalize and scale_to_exponent on one price           *)
(***************************************************************************)
\* mantissas around the normalize ceiling 2^28 - 1 and at the ends of u64
PriceMantissas ==
    { <<>>, N(1), N(7), N(10), N(1234),
      ORACLE_MAX_PRICE, BAdd(ORACLE_MAX_PRICE, N(1)),
      BAdd(BMul(ORACLE_MAX_PRICE, N(10)), N(9)),
      BMul(BAdd(ORACLE_MAX_PRICE, N(1)), N(10)),
      U64_MAX }
PriceExponents == { I32_MIN, -8, -7, 0, 12, I32_MAX }
TargetExponents == { I32_MIN, -17, -9, -8, 0, I32_MAX }
Prices == { OraclePrice(m, e) : m \in PriceMantissas, e \in PriceExponents }

InitPrice ==
    /\ fn = "OraclePrice"
    /\ \E p \in Prices : args = [self |-> p]
    /\ pc = "run"
    /\ idx = 0
    /\ pool_equity = <<>>
    /\ custody_details = <<>>
    /\ ret = NoRet
    /\ hist = <<>>

\* self == other
PriceEq ==
    /\ fn = "OraclePrice" /\ pc = "run"
    /\ pc' = "done"
    /\ \E other \in Prices :
          ret' = [op |-> "eq", other |-> other, eq |-> price_eq(args.self, other)]
    /\ UNCHANGED <<fn, args, idx, pool_equity, custody_details, hist>>

\* self.normalize(), and normalize() again on its result
then_normalize(once) == IF once.ok THEN normalize(once.v) ELSE once
Normalize ==
    /\ fn = "OraclePrice" /\ pc = "run"
    /\ pc' = "done"
    /\ ret' = [op |-> "normalize", once |-> normalize(args.self),
               twice |-> then_normalize(normalize(args.self))]
    /\ UNCHANGED <<fn, args, idx, pool_equity, custody_details, hist>>

\* self.scale_to_exponent(target), and the result scaled back to self.exponent
then_scale_back(there, exponent, overflow_checks) ==
    IF there.ok THEN scale_to_exponent_build(there.v, exponent, overflow_checks) ELSE there
ScaleToExponent ==
    /\ fn = "OraclePrice" /\ pc = "run"
    /\ pc' = "done"
    /\ \E target \in TargetExponents, overflow_checks \in BOOLEAN :
          ret' = [op |-> "scale_to_exponent", target |-> target,
                  there |-> scale_to_exponent_build(args.self, target, overflow_checks),
                  back |-> then_scale_back(
                               scale_to_exponent_build(args.self, target, overflow_checks),
                               args.self.exponent, overflow_checks)]
    /\ UNCHANGED <<fn, args, idx, pool_equity, custody_details, hist>>

\* self.checked_div(other)
CheckedDiv ==
    /\ fn = "OraclePrice" /\ pc = "run"
    /\ pc' = "done"
    /\ \E other \in Prices :
          ret' = [op |-> "checked_div", other |-> other,
                  quotient |-> price_checked_div(args.self, other)]
    /\ UNCHANGED <<fn, args, idx, pool_equity, custody_details, hist>>

NextPrice == PriceEq \/ Normalize \/ ScaleToExponent \/ CheckedDiv

SpecPrice == InitPrice /\ [][NextPrice]_vars

(***************************************************************************)
(* All entry points                                                        *)
(***************************************************************************)
Init == InitPool \/ InitOracle \/ InitFee \/ InitLiq \/ InitIndex \/ InitPrice
Next == NextPool \/ NextOracle \/ NextFee \/ NextLiq \/ NextIndex \/ NextPrice
Spec == Init /\ [][Next]_vars

(***************************************************************************)
(* Properties of get_pool_token_prices                                     *)
(***************************************************************************)
PoolRun == fn = "get_pool_token_prices"

\* the record of market i (0-based) was supplied under the market's key
MarketSupplied(i) ==
    /\ InBounds(args.remaining_accounts, 2 * NumCustodies + i)
    /\ At(args.remaining_accounts, 2 * NumCustodies + i).key = At(args.pool.markets, i)

\* the market loop is about to process market idx - NumCustodies
AtMarket ==
    /\ PoolRun /\ pc = "run" /\ idx >= NumCustodies /\ idx < NumCustodies + NumMarkets
    /\ MarketSupplied(idx - NumCustodies)

\* the i-th market account (0-based) and its aggregate position
MarketData(i) == At(args.remaining_accounts, 2 * NumCustodies + i).data
PositionOf(i) == get_collective_position(MarketData(i))

ExitOf(i) ==
    IF MarketData(i).side = "Short"
    THEN short_exit_price(At(custody_details, MarketData(i).target_custody_id))
    ELSE long_exit_price(At(custody_details, MarketData(i).target_custody_id))

\* exit and entry price are comparable mantissa by mantissa
Comparable(i) ==
    ExitOf(i).ok /\ ExitOf(i).v.exponent = PositionOf(i).entry_price.exponent

\* shorts: exit < entry; longs: exit > entry
TradersInProfit(i) ==
    IF MarketData(i).side = "Short"
    THEN BLt(ExitOf(i).v.price, PositionOf(i).entry_price.price)
    ELSE BGt(ExitOf(i).v.price, PositionOf(i).entry_price.price)

AbsDiff(a, b) == IF BLt(a, b) THEN BSub(b, a) ELSE BSub(a, b)

\* |exit - entry| valued in USD at size_amount
PnlUsd(i) ==
    get_asset_amount_usd(
        OraclePrice(AbsDiff(ExitOf(i).v.price, PositionOf(i).entry_price.price),
                    ExitOf(i).v.exponent),
        PositionOf(i).size_amount, PositionOf(i).size_decimals)

CollateralMinPrice(i) ==
    At(custody_details, MarketData(i).collateral_custody_id).min_price

LockedUsd(i) ==
    get_asset_amount_usd(CollateralMinPrice(i), PositionOf(i).locked_amount,
                         PositionOf(i).locked_decimals)

CollateralUsd(i) ==
    get_asset_amount_usd(CollateralMinPrice(i), PositionOf(i).collateral_amount,
                         PositionOf(i).collateral_decimals)

Valued(i) == Comparable(i) /\ PnlUsd(i).ok /\ LockedUsd(i).ok /\ CollateralUsd(i).ok

ProfitCap(i) == BMin(PnlUsd(i).v, LockedUsd(i).v)
LossCap(i)   == BMin(PnlUsd(i).v, CollateralUsd(i).v)

\* the market step went through: the loop moved on without an error
Continues == pc' = "run" /\ idx' = idx + 1 /\ ret' = NoRet

\* the equity after the custody loop, from the accounts supplied
RECURSIVE RawAssetsFrom(_)
RawAssetsFrom(i) ==
    IF i = 0 THEN <<>>
    ELSE BAdd(RawAssetsFrom(i - 1),
              get_asset_amount_usd(At(custody_details, i - 1).min_price,
                                   At(args.remaining_accounts, i - 1).data.assets.owned,
                                   At(args.remaining_accounts, i - 1).data.decimals).v)

\* the first market has just been processed without an error
AfterFirstMarket ==
    PoolRun /\ pc = "run" /\ NumMarkets >= 1 /\ idx = NumCustodies + 1 /\ Valued(0)

\* C1: the running pool equity never goes below zero: when the traders of
\* the market being processed are in profit and the capped PnL exceeds the
\* equity accumulated so far, the market step leaves the equity at exactly 0
\* and the computation goes on without an error.
C1_EquitySaturatesAtZero ==
    [][ (AtMarket /\ Valued(idx - NumCustodies) /\ TradersInProfit(idx - NumCustodies)
            /\ BGt(ProfitCap(idx - NumCustodies), pool_equity))
        => (pool_equity' = <<>> /\ Continues) ]_vars

\* the first market's capped profit exceeded a positive equity, which is now 0
C1_Witness ==
    /\ AfterFirstMarket
    /\ TradersInProfit(0)
    /\ RawAssetsFrom(NumCustodies) # <<>>
    /\ BGt(ProfitCap(0), RawAssetsFrom(NumCustodies))
    /\ pool_equity = <<>>

\* C2 as stated: a market in profit lowers the equity by exactly
\* min(PnL, locked USD), every other market raises it by min(loss,
\* collateral USD).
C2_ExactCappedChange ==
    [][ (AtMarket /\ Valued(idx - NumCustodies) /\ Continues)
        => IF TradersInProfit(idx - NumCustodies)
           THEN BAdd(pool_equity', ProfitCap(idx - NumCustodies)) = pool_equity
           ELSE pool_equity' = BAdd(pool_equity, LossCap(idx - NumCustodies)) ]_vars

\* C2 (amended): a market in profit lowers the equity by min(PnL, locked
\* USD), or to 0 when that exceeds the equity; every other market raises the
\* equity by exactly min(loss, collateral USD); no market moves the equity
\* by more than its cap, and every market that is processed is of one of
\* these two cases.
C2_CappedChange ==
    [][ (AtMarket /\ Continues)
        => /\ Valued(idx - NumCustodies)
           /\ IF TradersInProfit(idx - NumCustodies)
              THEN /\ pool_equity' = IF BGt(ProfitCap(idx - NumCustodies), pool_equity)
                                     THEN <<>>
                                     ELSE BSub(pool_equity, ProfitCap(idx - NumCustodies))
                   /\ BLe(pool_equity', pool_equity)
                   /\ BLe(BSub(pool_equity, pool_equity'), LockedUsd(idx - NumCustodies).v)
              ELSE /\ pool_equity' = BAdd(pool_equity, LossCap(idx - NumCustodies))
                   /\ BLe(BSub(pool_equity', pool_equity),
                          CollateralUsd(idx - NumCustodies).v) ]_vars

\* the first market was in profit, the locked amount capped its PnL, and the
\* equity fell by exactly that cap without reaching 0
C2_Witness ==
    /\ AfterFirstMarket
    /\ TradersInProfit(0)
    /\ BLt(LockedUsd(0).v, PnlUsd(0).v)
    /\ pool_equity # <<>>
    /\ BAdd(pool_equity, LockedUsd(0).v) = RawAssetsFrom(NumCustodies)

\* what Oracle Ingestion makes of custody i's feed at the time of the call
Validated(i) ==
    fetch_from_oracle(
        OraclePrice(i64_as_u64(At(args.remaining_accounts, NumCustodies + i).data.price),
                    At(args.remaining_accounts, NumCustodies + i).data.exponent),
        OraclePrice(i64_as_u64(At(args.remaining_accounts, NumCustodies + i).data.ema_price),
                    At(args.remaining_accounts, NumCustodies + i).data.exponent),
        At(args.remaining_accounts, NumCustodies + i).data.conf,
        At(args.remaining_accounts, NumCustodies + i).data.publish_time,
        At(args.remaining_accounts, i).data.oracle,
        args.now,
        At(args.remaining_accounts, i).data.is_stable)

\* C3: get_pool_token_prices returns share prices only if the feed of every
\* custody passes oracle validation, and the min/max prices it values with
\* are the validated bounds of the feed.
C3_OnlyValidatedPrices ==
    /\ (PoolRun /\ pc = "done" /\ ret.ok)
          => \A i \in 0..(NumCustodies - 1) : Validated(i).ok
    /\ PoolRun
          => \A i \in 0..(Len(custody_details) - 1) :
                /\ Validated(i).ok
                /\ At(custody_details, i).min_price = Validated(i).v[1]
                /\ At(custody_details, i).max_price = Validated(i).v[2]

(***************************************************************************)
(* Properties of get_liquidation_price                                     *)
(***************************************************************************)
LiqDone == fn = "get_liquidation_price" /\ pc = "done"

\* closing fee + accrued lock fee + unsettled fees + size_usd * 10^4 / max_leverage
ClosingFee == get_fee_amount(args.position.size_usd, args.target_custody.fees.close_position)
AccruedLockFee == get_lock_fee_usd(args.collateral_custody, args.position, args.now)
LeverageMargin ==
    BDiv(BMul(args.position.size_usd, N(10000)), args.target_custody.pricing.max_leverage)
Liabilities ==
    BAdd(BAdd(ClosingFee.v, AccruedLockFee.v),
         BAdd(args.position.unsettled_fees_usd, LeverageMargin))

\* floor(usd * 10^(size_decimals + 3) / amount), a mantissa at exponent -9
RateMantissa(usd, amount) ==
    BDiv(BMul(usd, BPow(N(10), args.position.size_decimals + 3)), amount)

\* a mantissa at exponent -9 brought to the entry price's exponent
AtEntryExponent(mantissa) ==
    scale_to_exponent(OraclePrice(mantissa, -9), args.position.entry_price.exponent)

CorrelatedLong == args.market.correlation /\ args.market.side = "Long"
TotalAmount == BAdd(args.position.size_amount, args.position.collateral_amount)

\* C4: for a correlated long market get_liquidation_price returns
\* floor((size_usd + liabilities_usd) * 10^(size_decimals+3) /
\* (size_amount + collateral_amount)) at exponent -9, rescaled to the entry
\* price's exponent, whatever the collateral oracle price is; it returns an
\* error when size_amount + collateral_amount = 0, and only then unless the
\* mantissa does not fit 64 bits.
C4_CorrelatedLongPrice ==
    (LiqDone /\ CorrelatedLong) =>
        /\ TotalAmount = <<>> => ~ret.ok
        /\ ret.ok =>
              ret = AtEntryExponent(
                        RateMantissa(BAdd(args.position.size_usd, Liabilities), TotalAmount))
        /\ (~ret.ok /\ TotalAmount # <<>>) =>
              BGt(RateMantissa(BAdd(args.position.size_usd, Liabilities), TotalAmount),
                  U64_MAX)

\* a correlated long position with collateral and an accrued lock fee got a price
C4_Witness ==
    /\ LiqDone /\ CorrelatedLong
    /\ ret.ok
    /\ args.position.collateral_amount # <<>>
    /\ args.position.size_amount # <<>>
    /\ AccruedLockFee.ok /\ AccruedLockFee.v # <<>>

Uncorrelated == ~args.market.correlation /\ args.market.side \in {"Long", "Short"}

\* the collateral valued at the current collateral price
AssetsUsd ==
    get_asset_amount_usd(OraclePrice(i64_as_u64(args.price_message.price),
                                     args.price_message.exponent),
                         args.position.collateral_amount,
                         args.position.collateral_decimals)
Solvent == BGe(AssetsUsd.v, Liabilities)
Shortfall == IF Solvent THEN BSub(AssetsUsd.v, Liabilities) ELSE BSub(Liabilities, AssetsUsd.v)
Delta == AtEntryExponent(RateMantissa(Shortfall, args.position.size_amount))

\* entry - delta clamped at 0, entry + delta clamped at the largest u64
EntryMinus(delta) ==
    IF BLt(args.position.entry_price.price, delta) THEN <<>>
    ELSE BSub(args.position.entry_price.price, delta)
EntryPlus(delta) ==
    IF BGt(BAdd(args.position.entry_price.price, delta), U64_MAX) THEN U64_MAX
    ELSE BAdd(args.position.entry_price.price, delta)

\* C5: for an uncorrelated market, with delta = floor(|assets_usd -
\* liabilities_usd| * 10^(size_decimals+3) / size_amount) brought from
\* exponent -9 to the entry exponent, get_liquidation_price returns entry -
\* delta (long) or entry + delta (short) when assets_usd >= liabilities_usd,
\* and entry + delta (long) or entry - delta (short) otherwise; the
\* subtraction clamps at 0 and the addition at the largest u64, and the call
\* fails only when size_amount = 0 or delta does not fit.
C5_UncorrelatedPrice ==
    (LiqDone /\ Uncorrelated) =>
        /\ ret.ok =>
              /\ ret.v.exponent = args.position.entry_price.exponent
              /\ ret.v.price =
                    IF Solvent = (args.market.side = "Long")
                    THEN EntryMinus(Delta.v.price)
                    ELSE EntryPlus(Delta.v.price)
        /\ ~ret.ok =>
              \/ args.position.size_amount = <<>>
              \/ BGt(RateMantissa(Shortfall, args.position.size_amount), U64_MAX)
              \/ ~Delta.ok

\* a solvent short whose entry + delta was clamped at the largest u64
C5_Witness ==
    /\ LiqDone /\ Uncorrelated
    /\ args.market.side = "Short"
    /\ ret.ok /\ Solvent
    /\ Delta.v.price # <<>>
    /\ ret.v.price = U64_MAX
    /\ BGt(BAdd(args.position.entry_price.price, Delta.v.price), U64_MAX)

\* an insolvent long: the price moves up from the entry price
C5_WitnessInsolvent ==
    /\ LiqDone /\ Uncorrelated
    /\ args.market.side = "Long"
    /\ ret.ok /\ ~Solvent
    /\ BGt(ret.v.price, args.position.entry_price.price)

(***************************************************************************)
(* Properties of fetch_from_oracle                                         *)
(***************************************************************************)
OracleDone == fn = "fetch_from_oracle" /\ pc = "done"

\* current_time - publish_time > max_price_age_sec
Stale ==
    IGt(IDiff(args.current_time, args.oracle_timestamp),
        [neg |-> FALSE, mag |-> args.oracle_params.max_price_age_sec])

\* the price the feed is held against: 1.0 USD for a stable asset, else the EMA
Reference ==
    IF args.is_stable
    THEN OraclePrice(BPow(N(10), i32_abs(args.oracle_price.exponent)),
                     args.oracle_price.exponent)
    ELSE args.oracle_ema_price

Divergence == get_divergence(args.oracle_price, Reference)
DivergencePasses == Divergence.ok /\ BLt(Divergence.v, args.oracle_params.max_divergence_bps)
DivergenceFails == Divergence.ok /\ ~BLt(Divergence.v, args.oracle_params.max_divergence_bps)

\* confidence * 10^4 / price, defined for a non-zero price
ConfidenceBps == BDiv(BMul(args.oracle_conf, N(10000)), args.oracle_price.price)
ConfidencePasses ==
    /\ args.oracle_price.price # <<>>
    /\ BLt(ConfidenceBps, args.oracle_params.max_conf_bps)
ConfidenceFails ==
    /\ args.oracle_price.price # <<>>
    /\ ~BLt(ConfidenceBps, args.oracle_params.max_conf_bps)

Rejected == ~ret.ok /\ ret.err = "InvalidOraclePrice"

\* C6: fetch_from_oracle fails with InvalidOraclePrice when the feed is
\* stale, and when the divergence is not below max_divergence_bps while
\* confidence_bps is not below max_conf_bps; a feed that is not stale and
\* passes the divergence check or the confidence check is never rejected
\* with InvalidOraclePrice.
C6_RejectsExactlyInvalidFeeds ==
    OracleDone =>
        /\ Stale => Rejected
        /\ (DivergenceFails /\ ConfidenceFails) => Rejected
        /\ (~Stale /\ (DivergencePasses \/ ConfidencePasses)) => ~Rejected

\* a fresh feed that fails both checks was rejected
C6_Witness ==
    /\ OracleDone /\ ~Stale
    /\ DivergenceFails /\ ConfidenceFails
    /\ Rejected

PriceIsReference == args.oracle_price = Reference

\* C7 as stated: a fresh feed whose price equals its reference exactly
\* yields (price, price, volatile = false) for every setting of the oracle
\* parameters.
C7_ReferencePriceAccepted ==
    (OracleDone /\ ~Stale /\ PriceIsReference)
        => ret = Ok(<<args.oracle_price, args.oracle_price, FALSE>>)

\* C7 (amended): a fresh feed whose price equals its non-zero reference
\* exactly yields (price, price, volatile = false) when max_divergence_bps
\* is positive; when max_divergence_bps = 0 the divergence check cannot
\* pass and the result is never the unwidened price.
C7_ReferencePriceAcceptedBelowBound ==
    (OracleDone /\ ~Stale /\ PriceIsReference /\ args.oracle_price.price # <<>>) =>
        IF args.oracle_params.max_divergence_bps # <<>>
        THEN ret = Ok(<<args.oracle_price, args.oracle_price, FALSE>>)
        ELSE ~ret.ok \/ ret.v[3] = TRUE

\* a stable asset priced at exactly 1.0 USD, away from its EMA, was accepted unwidened
C7_Witness ==
    /\ OracleDone /\ ~Stale /\ PriceIsReference
    /\ args.is_stable
    /\ args.oracle_ema_price # args.oracle_price
    /\ args.oracle_params.max_divergence_bps # <<>>
    /\ ret = Ok(<<args.oracle_price, args.oracle_price, FALSE>>)

\* the band price - confidence .. price + confidence exists in u64
BandFits ==
    /\ BLe(args.oracle_conf, args.oracle_price.price)
    /\ BLe(BAdd(args.oracle_price.price, args.oracle_conf), U64_MAX)

\* C8: when a fresh feed's divergence is not below max_divergence_bps and
\* confidence * 10^4 / price is below max_conf_bps, fetch_from_oracle
\* returns (price - confidence, price + confidence, volatile = true) at the
\* feed's exponent; it fails, with MathOverflow, only when one of the two
\* prices is not a u64.
C8_ConfidenceBand ==
    (OracleDone /\ ~Stale /\ DivergenceFails /\ ConfidencePasses) =>
        IF BandFits
        THEN ret = Ok(<<OraclePrice(BSub(args.oracle_price.price, args.oracle_conf),
                                    args.oracle_price.exponent),
                        OraclePrice(BAdd(args.oracle_price.price, args.oracle_conf),
                                    args.oracle_price.exponent),
                        TRUE>>)
        ELSE ret = MathOverflow

\* a diverging feed with a small non-zero confidence came back widened
C8_Witness ==
    /\ OracleDone /\ ~Stale /\ DivergenceFails /\ ConfidencePasses
    /\ args.oracle_conf # <<>>
    /\ ret.ok
    /\ ret.v[3] = TRUE
    /\ BLt(ret.v[1].price, ret.v[2].price)

(***************************************************************************)
(* Properties of get_lock_fee_usd                                          *)
(***************************************************************************)
FeeRun == fn = "get_lock_fee_usd"

Stored == args.custody.borrow_rate_state.cumulative_lock_fee
Snapshot == args.position.cumulative_lock_fee_snapshot
AtLastUpdate(t) == Times[t] = args.custody.borrow_rate_state.last_update

\* floor((cumulative - snapshot) * locked_usd / 10^9) as a Result<u64>
FeeSince(cumulative) ==
    IF BLe(cumulative, Snapshot) THEN Ok(<<>>)
    ELSE IF BGt(BMul(BSub(cumulative, Snapshot), args.position.locked_usd), U128_MAX)
    THEN MathOverflow
    ELSE IF BGt(BDiv(BMul(BSub(cumulative, Snapshot), args.position.locked_usd),
                     N(1000000000)), U64_MAX)
    THEN MathOverflow
    ELSE Ok(BDiv(BMul(BSub(cumulative, Snapshot), args.position.locked_usd),
                 N(1000000000)))

\* C9 as stated: the fee is exactly 0 whenever now equals last_update and
\* whenever the custody is virtual, for every position, stored cumulative
\* fee and snapshot.
C9_ZeroAtLastUpdateOrVirtual ==
    FeeRun => \A t \in DOMAIN hist :
        (AtLastUpdate(t) \/ args.custody.is_virtual) => hist[t] = Ok(<<>>)

\* C9 (amended): the fee is exactly 0 whenever the custody is virtual or the
\* position has no locked USD; when now equals last_update it is
\* floor((stored cumulative fee - snapshot) * locked_usd / 10^9), which is 0
\* exactly when the stored cumulative fee does not exceed the snapshot by
\* enough to make the quotient positive.
C9_ZeroWhenVirtualElseOwedSinceSnapshot ==
    FeeRun => \A t \in DOMAIN hist :
        /\ (args.custody.is_virtual \/ args.position.locked_usd = <<>>)
              => hist[t] = Ok(<<>>)
        /\ (AtLastUpdate(t) /\ ~args.custody.is_virtual /\ args.position.locked_usd # <<>>)
              => hist[t] = FeeSince(Stored)

\* a call at now = last_update on a real custody returned a positive fee
C9_Witness ==
    /\ FeeRun
    /\ \E t \in DOMAIN hist :
          /\ AtLastUpdate(t)
          /\ ~args.custody.is_virtual
          /\ hist[t].ok /\ hist[t].v # <<>>

\* a call on a virtual custody whose stored index is ahead of the snapshot returned 0
C9_WitnessVirtual ==
    /\ FeeRun
    /\ args.custody.is_virtual
    /\ args.position.locked_usd # <<>>
    /\ BGt(Stored, Snapshot)
    /\ \E t \in DOMAIN hist : hist[t] = Ok(<<>>)

\* Times[t1] <= Times[t2]
NotLater(t1, t2) == ~IGt(Times[t1], Times[t2])

\* the custody's cumulative index at Times[t]: the stored index plus
\* ceil(elapsed * current_rate / 3600) once time has passed last_update
Elapsed(t) == IDiff(Times[t], args.custody.borrow_rate_state.last_update)
IndexAt(t) ==
    IF Elapsed(t).neg \/ Elapsed(t).mag = <<>> THEN Stored
    ELSE BAdd(Stored,
              CeilOf(BDivMod(BMul(Elapsed(t).mag,
                                  args.custody.borrow_rate_state.current_rate),
                             N(3600))))

\* C10: for a fixed custody and position the fee does not decrease as now
\* increases: for all t1 <= t2 whose calls both succeed, fee(t1) <= fee(t2);
\* and the fee is 0, not negative, when the position's snapshot is at or
\* ahead of the custody's cumulative index.
C10_FeeMonotoneInTime ==
    FeeRun =>
        /\ \A t1 \in DOMAIN hist, t2 \in DOMAIN hist :
              (NotLater(t1, t2) /\ hist[t1].ok /\ hist[t2].ok)
                  => BLe(hist[t1].v, hist[t2].v)
        /\ \A t \in DOMAIN hist :
              (hist[t].ok /\ BLe(IndexAt(t), Snapshot)) => hist[t].v = <<>>

\* two successful calls, the later one with the strictly larger positive fee
C10_Witness ==
    /\ FeeRun
    /\ \E t1 \in DOMAIN hist, t2 \in DOMAIN hist :
          /\ NotLater(t1, t2)
          /\ hist[t1].ok /\ hist[t2].ok
          /\ hist[t1].v # <<>>
          /\ BLt(hist[t1].v, hist[t2].v)

\* a call with the snapshot ahead of the cumulative index returned 0
C10_WitnessSnapshotAhead ==
    /\ FeeRun
    /\ ~args.custody.is_virtual
    /\ args.position.locked_usd # <<>>
    /\ \E t \in DOMAIN hist :
          /\ BLt(IndexAt(t), Snapshot)
          /\ BGt(IndexAt(t), Stored)
          /\ hist[t] = Ok(<<>>)

(***************************************************************************)
(* Properties of get_cumulative_lock_fee                                   *)
(***************************************************************************)
IndexDone == fn = "get_cumulative_lock_fee" /\ pc = "done"

SinceUpdate == IDiff(args.curtime, args.custody.borrow_rate_state.last_update)
AfterUpdate == ~SinceUpdate.neg /\ SinceUpdate.mag # <<>>

\* (now - last_update) * current_rate
Due == BMul(SinceUpdate.mag, args.custody.borrow_rate_state.current_rate)
\* ceil(Due / 3600)
DueCeil == BDiv(BAdd(Due, N(3599)), N(3600))

\* C11: get_cumulative_lock_fee(now) is the stored cumulative_lock_fee +
\* ceil((now - last_update) * current_rate / 3600) when now > last_update
\* (an error when that sum does not fit 128 bits), and the stored value
\* unchanged when now <= last_update; a result is never smaller than the
\* stored value and its accrued part times 3600 is never smaller than
\* (now - last_update) * current_rate.
C11_IndexAccruesRoundedUp ==
    IndexDone =>
        /\ AfterUpdate =>
              IF BLe(BAdd(args.custody.borrow_rate_state.cumulative_lock_fee, DueCeil),
                     U128_MAX)
              THEN ret = Ok(BAdd(args.custody.borrow_rate_state.cumulative_lock_fee, DueCeil))
              ELSE ret = MathOverflow
        /\ ~AfterUpdate => ret = Ok(args.custody.borrow_rate_state.cumulative_lock_fee)
        /\ ret.ok =>
              /\ BGe(ret.v, args.custody.borrow_rate_state.cumulative_lock_fee)
              /\ AfterUpdate =>
                    BGe(BMul(BSub(ret.v, args.custody.borrow_rate_state.cumulative_lock_fee),
                             N(3600)),
                        Due)

\* one second at rate 1 accrued a whole unit: the division rounded up
C11_Witness ==
    /\ IndexDone /\ AfterUpdate
    /\ ret.ok
    /\ Due = N(1)
    /\ ret.v = BAdd(args.custody.borrow_rate_state.cumulative_lock_fee, N(1))

(***************************************************************************)
(* OraclePrice: helpers for the claims on ==, normalize, scale_to_exponent *)
(***************************************************************************)
PriceDone(op) == fn = "OraclePrice" /\ pc = "done" /\ ret.op = op
\* hi - lo for i32 exponents hi >= lo, capped at 20: 10^20 exceeds 2^64 - 1
ExponentGap(hi, lo) ==
    IF hi >= 0 /\ lo < 0
    THEN (IF hi >= 20 \/ lo <= -20 THEN 20 ELSE hi - lo)
    ELSE (IF hi - lo > 20 THEN 20 ELSE hi - lo)
\* mantissa * 10^gap, as an unbounded integer
Widened(mantissa, gap) == BMul(mantissa, BPow(<<10>>, gap))
\* hi (the price with the larger exponent) and lo stand for the same real value
SameValueOrdered(hi, lo) ==
    \/ hi.price = <<>> /\ lo.price = <<>>
    \/ /\ ExponentGap(hi.exponent, lo.exponent) < 20
       /\ Widened(hi.price, ExponentGap(hi.exponent, lo.exponent)) = lo.price
SameValue(a, b) ==
    IF a.exponent >= b.exponent THEN SameValueOrdered(a, b) ELSE SameValueOrdered(b, a)

\* C12: two prices that stand for the same real value compare equal under
\* `==`, whichever exponents they carry.
C12_SameValueComparesEqual ==
    (PriceDone("eq") /\ SameValue(args.self, ret.other)) => ret.eq

(***************************************************************************)
(* get_liquidation_price: conversions                                      *)
(***************************************************************************)
\* the feed's price has no u64 value, or size_decimals + 3 has no u8 value
NotRepresentable ==
    \/ args.price_message.price.neg
    \/ args.position.size_decimals + 3 > 255
\* the collateral is valued at the feed's price
PriceUsed ==
    /\ ~(args.market.correlation /\ args.market.side = "Long")
    /\ args.position.collateral_amount # <<>>

\* C13: a call of get_liquidation_price whose feed price or size_decimals + 3
\* is not representable in the destination type fails with the
\* arithmetic-overflow error.
C13_UnrepresentableValueFails ==
    (LiqDone /\ NotRepresentable /\ PriceUsed) => ret = MathOverflow

(***************************************************************************)
(* get_pool_token_prices: the supplied records                             *)
(***************************************************************************)
\* fewer records than 2 * |custodies| + |markets|
TooFewRecords == Len(args.remaining_accounts) < 2 * NumCustodies + NumMarkets
\* the key the record at position i (0-based) is expected to carry
ExpectedKey(i) ==
    IF i < NumCustodies THEN At(args.pool.custodies, i)
    ELSE IF i < 2 * NumCustodies
    THEN At(args.remaining_accounts, i - NumCustodies).data.oracle.ext_oracle_account
    ELSE At(args.pool.markets, i - 2 * NumCustodies)
\* a supplied record does not carry the expected key
RecordMismatch ==
    \E i \in 0..(2 * NumCustodies + NumMarkets - 1) :
        /\ InBounds(args.remaining_accounts, i)
        /\ At(args.remaining_accounts, i).key # ExpectedKey(i)

\* C14: with too few records, or a record that does not match its expected
\* reference, the call ends with an error returned and no prices, and never
\* aborts on a read past the supplied records.
C14_MisdeliveredRecordsReturnError ==
    (PoolRun /\ pc = "done" /\ (TooFewRecords \/ RecordMismatch))
        => (~ret.ok /\ ret # Panic)

(***************************************************************************)
(* OraclePrice::normalize                                                  *)
(***************************************************************************)
\* the least number of truncating divisions by 10 that bring the mantissa
\* to the ceiling 2^28 - 1 or below (at most 11 for a 64-bit mantissa)
\* floor(mantissa / 10^k) <= 2^28 - 1 exactly when mantissa < 2^28 * 10^k
NormalSteps(mantissa) ==
    CHOOSE k \in 0..12 :
        /\ BLt(mantissa, BMul(BPow(N(2), 28), BPow(<<10>>, k)))
        /\ k = 0 \/ BGe(mantissa, BMul(BPow(N(2), 28), BPow(<<10>>, k - 1)))
\* the exponent can be raised that many times within i32
ExponentFits(p) == p.exponent <= I32_MAX - NormalSteps(p.price)
NormalForm(p) ==
    OraclePrice(BDiv(p.price, BPow(<<10>>, NormalSteps(p.price))),
                p.exponent + NormalSteps(p.price))
\* normalize gave the normal form of self, and gives it again on its result
Normalized ==
    /\ ret.once.ok
    /\ BLe(ret.once.v.price, ORACLE_MAX_PRICE)
    /\ ret.once.v = NormalForm(args.self)
    /\ ret.twice = ret.once
    /\ BLe(args.self.price, ORACLE_MAX_PRICE) => ret.once.v = args.self

ToSmaller == ret.target < args.self.exponent
ToLarger  == ret.target > args.self.exponent
Distance ==
    IF ToSmaller THEN ExponentGap(args.self.exponent, ret.target)
    ELSE ExponentGap(ret.target, args.self.exponent)
\* 10^Distance and the widened mantissa both fit 64 bits
WidenedFits ==
    Distance < 20 /\ BLe(Widened(args.self.price, Distance), U64_MAX)

\* C16: a rescale to a smaller or equal exponent that succeeds is undone by
\* the rescale back; a rescale to a larger exponent truncates toward zero;
\* a rescale whose multiplication or power of ten does not fit 64 bits
\* fails, and one that fits multiplies exactly.
C16_RescaleRoundTrip ==
    PriceDone("scale_to_exponent") =>
        /\ (ret.target <= args.self.exponent /\ ret.there.ok) => ret.back = Ok(args.self)
        /\ (ToLarger /\ ret.there.ok) =>
               /\ Distance < 20
               /\ ret.there.v = OraclePrice(BDiv(args.self.price, BPow(<<10>>, Distance)),
                                            ret.target)
        /\ (ToLarger /\ Distance >= 20) => ~ret.there.ok
        /\ (ToSmaller /\ ~WidenedFits) => ~ret.there.ok
        /\ (ToSmaller /\ WidenedFits) =>
               ret.there = Ok(OraclePrice(Widened(args.self.price, Distance), ret.target))

\* a price was rescaled nine places down, to another mantissa, and back
C16_Witness ==
    /\ PriceDone("scale_to_exponent")
    /\ ToSmaller /\ Distance = 9
    /\ ret.there.ok
    /\ ret.there.v.price # args.self.price
    /\ ret.back = Ok(args.self)

(***************************************************************************)
(* get_pool_token_prices: the exit price of a market                       *)
(***************************************************************************)
\* market i (0-based) has been processed: its exit price was computed
Processed(i) ==
    /\ PoolRun /\ i >= 0 /\ i < NumMarkets /\ idx > NumCustodies + i
    /\ MarketSupplied(i)
\* the CustodyDetails and the oracle exponent of market i's target custody
TargetOf(i) == At(custody_details, MarketData(i).target_custody_id)
TargetOracleExponent(i) ==
    At(args.remaining_accounts, NumCustodies + MarketData(i).target_custody_id).data.exponent
\* price * spread * 10^-6, rounded down and rounded up
SpreadFloor(price, spread) == BDiv(BMul(price, spread), N(1000000))
SpreadCeil(price, spread) ==
    IF BDivMod(BMul(price, spread), N(1000000)).r = <<>>
    THEN SpreadFloor(price, spread)
    ELSE BAdd(SpreadFloor(price, spread), N(1))
ShortExit(i) ==
    BAdd(TargetOf(i).max_price.price,
         SpreadCeil(TargetOf(i).max_price.price, TargetOf(i).trade_spread_max))
LongExit(i) ==
    IF BLt(SpreadFloor(TargetOf(i).min_price.price, TargetOf(i).trade_spread_min),
           TargetOf(i).min_price.price)
    THEN BSub(TargetOf(i).min_price.price,
              SpreadFloor(TargetOf(i).min_price.price, TargetOf(i).trade_spread_min))
    ELSE <<>>

\* C17: the exit price of a processed short market is the max oracle price
\* plus the max spread rounded up, never below the max price; that of a
\* processed long market is the min oracle price minus the min spread
\* rounded down, and 0 when the spread is not below the price.  Its exponent
\* is the target custody's oracle exponent and it is what
\* Pool::get_exit_price returns for that side, these prices and that spread.
C17_ExitPriceBySide ==
    \A i \in 0..(MaxMarkets - 1) :
        (Processed(i) /\ MarketData(i).side \in {"Long", "Short"}) =>
            /\ ExitOf(i).ok
            /\ ExitOf(i).v.exponent = TargetOracleExponent(i)
            /\ IF MarketData(i).side = "Short"
               THEN /\ ExitOf(i).v.price = ShortExit(i)
                    /\ BGe(ExitOf(i).v.price, TargetOf(i).max_price.price)
                    /\ ExitOf(i) = get_exit_price(TargetOf(i).min_price,
                                                  TargetOf(i).max_price, "Short",
                                                  TargetOf(i).trade_spread_max)
               ELSE /\ ExitOf(i).v.price = LongExit(i)
                    /\ ExitOf(i) = get_exit_price(TargetOf(i).min_price,
                                                  TargetOf(i).max_price, "Long",
                                                  TargetOf(i).trade_spread_min)

\* a short market was processed whose spread had to be rounded up
C17_Witness ==
    /\ Processed(0)
    /\ MarketData(0).side = "Short"
    /\ SpreadCeil(TargetOf(0).max_price.price, TargetOf(0).trade_spread_max)
           # SpreadFloor(TargetOf(0).max_price.price, TargetOf(0).trade_spread_max)
    /\ BGt(ExitOf(0).v.price, TargetOf(0).max_price.price)

\* a long market was processed whose spread was not below the price
C17_WitnessZero ==
    /\ Processed(0)
    /\ MarketData(0).side = "Long"
    /\ TargetOf(0).min_price.price # <<>>
    /\ ExitOf(0) = Ok(OraclePrice(<<>>, TargetOracleExponent(0)))

(***************************************************************************)
(* get_pool_token_prices: a market with no open positions                  *)
(***************************************************************************)
NoOpenPositions(i) == MarketData(i).collective_position.open_positions = <<>>

\* C18: the step of a market with no open positions leaves the pool equity
\* unchanged and does not make the call fail.
C18_EmptyMarketLeavesEquity ==
    [][ (AtMarket /\ NoOpenPositions(idx - NumCustodies))
        => (pool_equity' = pool_equity /\ Continues) ]_vars

(***************************************************************************)
(* The side of a market in the two computations                            *)
(***************************************************************************)
\* get_pool_token_prices computes the side's PnL with the long-side
\* formulas: its traders are in profit when the exit price is above the
\* entry price
PoolTreatsAsLong(side) ==
    in_profit(side, OraclePrice(N(2), 0), OraclePrice(N(1), 0))
\* get_liquidation_price moved a solvent position's price in the long-side
\* direction: below the entry price
LiquidatedAsLong == BLt(ret.v.price, args.position.entry_price.price)

\* the call took the branch of lines 210-255, whatever the side
SideDecidesDirection == ~(args.market.correlation /\ args.market.side = "Long")

\* C19: a solvent position whose liquidation price depends on the side is
\* liquidated in the long-side direction exactly when get_pool_token_prices
\* computes the PnL of a market of that side with the long-side formulas,
\* for every Side.
C19_SameSideInBoth ==
    (LiqDone /\ SideDecidesDirection /\ ret.ok /\ Solvent
        /\ ret.v.price # args.position.entry_price.price)
        => (LiquidatedAsLong <=> PoolTreatsAsLong(args.market.side))

(***************************************************************************)
(* get_pool_token_prices: the size of the accumulator                      *)
(***************************************************************************)
\* C20: after idx custodies and markets the pool equity is at most
\* idx * (2^64 - 1), well within 128 bits; so the only aborts of the call
\* are reads past the supplied records, never the unwrap of the loss-branch
\* addition, and the raw-asset addition fails for no custody whose value
\* was computed.
C20_EquityBoundedByCount ==
    PoolRun =>
        /\ BLe(pool_equity, BMul(U64_MAX, N(idx)))
        /\ BLe(pool_equity, U128_MAX)
        /\ (pc = "done" /\ ret = Panic) => TooFewRecords
        /\ (pc = "done" /\ ret = MathOverflow /\ idx < NumCustodies) =>
               ~get_asset_amount_usd(
                    OraclePrice(i64_as_u64(
                                    At(args.remaining_accounts, NumCustodies + idx).data.price),
                                At(args.remaining_accounts, NumCustodies + idx).data.exponent),
                    At(args.remaining_accounts, idx).data.assets.owned,
                    At(args.remaining_accounts, idx).data.decimals).ok

\* both custodies were valued and the first market's loss-branch addition
\* raised the equity
C20_Witness ==
    /\ AfterFirstMarket
    /\ BGt(pool_equity, RawAssetsFrom(NumCustodies))
    /\ BGt(RawAssetsFrom(NumCustodies), <<>>)

(***************************************************************************)
(* OraclePrice::checked_div                                                *)
(***************************************************************************)
\* both operands can be normalized within the i32 exponent range
BothNormalize == ExponentFits(args.self) /\ ExponentFits(ret.other)
\* a' and b': the normalized operands
Dividend == NormalForm(args.self)
Divisor  == NormalForm(ret.other)
\* a'.exponent - 9 and a'.exponent - 9 - b'.exponent stay within i32
ScaledExponentFits == Dividend.exponent >= I32_MIN + 9
QuotientExponentFits ==
    IF Divisor.exponent >= 0
    THEN Dividend.exponent - 9 >= I32_MIN + Divisor.exponent
    ELSE Dividend.exponent - 9 <= I32_MAX + Divisor.exponent
ExponentsFit == BothNormalize /\ ScaledExponentFits /\ QuotientExponentFits

\* C21: in checked_div the product of the normalized mantissa and 10^9 fits
\* 64 bits; the call fails exactly when the divisor's mantissa is 0 or an
\* exponent computation leaves the i32 range, and otherwise returns
\* floor(a' * 10^9 / b') at exponent a'.exponent - 9 - b'.exponent.
C21_CheckedDivOfNormalized ==
    PriceDone("checked_div") =>
        /\ ExponentFits(args.self) =>
               BLe(BMul(Dividend.price, N(1000000000)), U64_MAX)
        /\ ret.quotient.ok <=> (ExponentsFit /\ Divisor.price # <<>>)
        /\ ret.quotient.ok =>
               ret.quotient.v =
                   OraclePrice(BDiv(BMul(Dividend.price, N(1000000000)), Divisor.price),
                               Dividend.exponent - 9 - Divisor.exponent)
        /\ ~ret.quotient.ok => ret.quotient = MathOverflow

\* the largest u64 mantissa was divided by another mantissa above the
\* ceiling, to a quotient that is not 0
C21_Witness ==
    /\ PriceDone("checked_div")
    /\ args.self.price = U64_MAX
    /\ BGt(ret.other.price, ORACLE_MAX_PRICE)
    /\ ret.quotient.ok
    /\ ret.quotient.v.price # <<>>

=============================================================================
